---- MODULE Spec2Model ----
(***************************************************************************)
(* rustypaste: the paste lifecycle engine (upload, serve, delete, expiry   *)
(* reaper) over a filesystem, with the path helpers of util.rs.            *)
(*                                                                         *)
(* File names are kept as the list of their '.'-separated segments, so     *)
(* that the timestamp regex, the glob pattern and Path::extension act on   *)
(* what they act on in the code.  Paths are lists of components.           *)
(***************************************************************************)
EXTENDS Integers, Sequences, FiniteSets, TLC

VARIABLES
    now,        \* util::get_system_time(), in milliseconds
    fs,         \* directory entries: set of [path, ino]
    content,    \* inode -> [data, by]: file bytes and the upload that wrote them
    req,        \* request slot -> the handler's locals and its position
    started,    \* number of requests accepted so far
    reaper,     \* the cleanup thread of main.rs: position and pending removals
    reaped,     \* history: directory entries unlinked by the cleanup thread
    fetched,    \* history: URLs the shared HTTP client has issued a GET for
    pj,         \* one call of a function of util.rs: arguments and result
    config,     \* the Config the handlers read (config.rs), and the token environment
    paste_config,     \* the cleanup thread's copy of the [paste] table (main.rs, line 52)
    config_receiver,  \* the channel from the config watcher to the cleanup thread
    config_file       \* the configuration file: whether it parses, and as what

vars == <<now, fs, content, req, started, reaper, reaped, fetched, pj, config, paste_config, config_receiver, config_file>>

-----------------------------------------------------------------------------
(* Bounds of the model *)

MaxTick == 1        \* the clock advances at most this many milliseconds
MaxReqs == 4        \* requests accepted in one behaviour of Spec
MaxInFlight == 2    \* requests of Spec being handled at the same time
RaceGets == 3       \* K: concurrent GETs of SpecRace
MaxPartLen == 3     \* components of the untrusted part given to safe_path_join
MaxStoreReqs == 3   \* requests accepted in one behaviour of SpecStore
MaxUrlReqs == 2     \* requests accepted in one behaviour of SpecUrl
MaxDedupReqs == 3   \* requests accepted in one behaviour of SpecDedup
MaxAuthReqs == 2    \* requests accepted in one behaviour of SpecAuth
MaxNameReqs == 2    \* requests accepted in one behaviour of SpecNames
MaxReaperReqs == 2  \* requests accepted in one behaviour of SpecReaper
MaxReloads == 2     \* configurations waiting in the cleanup thread's channel
MaxServeReqs == 3   \* requests accepted in one behaviour of SpecServe
MaxLimitReqs == 2   \* requests accepted in one behaviour of SpecLimit
MaxParts == 2       \* parts of the payload of an upload

\* Inode numbers: 0 for a file there at the start, and one for each part of
\* each request (part k of request p may create the file p + (k - 1) * (MaxReqs + 1)).
Inodes == 0..((MaxReqs + 1) * MaxParts - 1)

(* util.rs:17  TIMESTAMP_EXTENSION_REGEX = \.[0-9]{10,}$ *)
TimestampDigits == 10

\* The smallest number the timestamp regex accepts (no leading zeros are modelled).
MinTimestamp == 10 ^ (TimestampDigits - 1)

\* The clock at start-up: a value the regex recognises as a timestamp.
Epoch == MinTimestamp + 1

-----------------------------------------------------------------------------
(* File names: sequences of segments (the name split on '.') *)

W(s) == [w |-> s, n |-> -1]       \* a segment of letters (or the empty segment)
N(k) == [w |-> "", n |-> k]       \* a segment of decimal digits, with its value

IsDigits(seg) == seg.n >= 0

Dot    == <<W(""), W("")>>            \* the component "."
DotDot == <<W(""), W(""), W("")>>     \* the component ".."

NoPath == [abs |-> FALSE, comps |-> <<>>]

P(isabs, cs) == [abs |-> isabs, comps |-> cs]

RECURSIVE Digits(_)
Digits(k) == IF k < 10 THEN <<k>> ELSE Digits(k \div 10) \o <<k % 10>>

\* Byte value standing for a word segment when file names are ordered; every
\* letter sorts after '.' (46) and after the digits (48..57).
WordCode(s) ==
    CASE s = ""    -> <<>>
      [] s = "a"   -> <<97>>
      [] s = "bak" -> <<98>>
      [] s = "txt" -> <<116>>
      [] s = "a b" -> <<97, 32, 98>>
      [] s = "a_b" -> <<97, 95, 98>>
      [] s = "a%20b" -> <<97, 37, 50, 48, 98>>
      [] s = "oneshot" -> <<111, 110>>
      [] s = "oneshot_url" -> <<111, 110, 95>>
      [] s = "url" -> <<117>>
      [] s = "x"   -> <<120>>
      [] OTHER     -> <<122>>

SegCode(seg) == IF IsDigits(seg)
                THEN [i \in 1..Len(Digits(seg.n)) |-> 48 + Digits(seg.n)[i]]
                ELSE WordCode(seg.w)

RECURSIVE NameCode(_)
NameCode(name) ==
    IF name = <<>> THEN <<>>
    ELSE IF Len(name) = 1 THEN SegCode(name[1])
    ELSE SegCode(name[1]) \o <<46>> \o NameCode(Tail(name))

RECURSIVE LexLess(_, _)
LexLess(a, b) ==
    IF b = <<>> THEN FALSE
    ELSE IF a = <<>> THEN TRUE
    ELSE IF a[1] # b[1] THEN a[1] < b[1]
    ELSE LexLess(Tail(a), Tail(b))

IsPrefix(s, t) == Len(s) <= Len(t) /\ SubSeq(t, 1, Len(s)) = s

Front(s) == SubSeq(s, 1, Len(s) - 1)
Last(s) == s[Len(s)]

-----------------------------------------------------------------------------
(* std::path and path_clean *)

\* Path::components(): "." is dropped everywhere but at the head of a
\* relative path.
Components(p) ==
    LET keep == ~p.abs /\ Len(p.comps) > 0 /\ p.comps[1] = Dot
        rest == IF keep THEN Tail(p.comps) ELSE p.comps
    IN (IF keep THEN <<Dot>> ELSE <<>>) \o SelectSeq(rest, LAMBDA c : c # Dot)

\* Path::starts_with: whole components, the root included.
StartsWith(p, base) ==
    /\ p.abs = base.abs
    /\ IsPrefix(Components(base), Components(p))

\* Path::join / PathBuf::push: an absolute part replaces the base.
Join(base, part) ==
    IF part.abs THEN part
    ELSE [abs |-> base.abs, comps |-> base.comps \o part.comps]

RECURSIVE CleanStack(_, _, _)
CleanStack(isabs, cs, out) ==
    IF cs = <<>> THEN out
    ELSE LET c == Head(cs) IN
         IF c = Dot THEN CleanStack(isabs, Tail(cs), out)
         ELSE IF c = DotDot THEN
              IF out = <<>>
              THEN CleanStack(isabs, Tail(cs), IF isabs THEN out ELSE <<c>>)
              ELSE IF Last(out) = DotDot
                   THEN CleanStack(isabs, Tail(cs), Append(out, c))
                   ELSE CleanStack(isabs, Tail(cs), Front(out))
         ELSE CleanStack(isabs, Tail(cs), Append(out, c))

\* PathClean::clean: lexical normalisation, "." for the empty relative path.
Clean(p) ==
    LET Cleaned(out) == [abs |-> p.abs,
                         comps |-> IF ~p.abs /\ out = <<>> THEN <<Dot>> ELSE out]
    IN Cleaned(CleanStack(p.abs, Components(p), <<>>))

Err == [ok |-> FALSE, path |-> NoPath]
Ok(p) == [ok |-> TRUE, path |-> p]

safe_path_join(base, part) ==
    LET Checked(new_path, cleaned_base) ==
            IF ~StartsWith(new_path, cleaned_base) THEN Err ELSE Ok(new_path)
    IN Checked(Clean(Join(base, part)), Clean(base))

-----------------------------------------------------------------------------
(* Configuration (config.rs) and the directory layout (paste.rs) *)

Nm(s) == <<W(s)>>                      \* a file name of one segment

\* server.upload_path, as in the tests: an absolute directory.
upload_path == P(TRUE, <<Nm("up")>>)

\* paste.default_extension
default_extension == Nm("txt")

\* Option<T>: None is the empty set, Some(v) the set of the one value.
None == {}
Some(v) == {v}

\* Config::default() with what the handlers of the model need switched on:
\* delete_tokens = ["d"] and the cleanup thread enabled.  auth_token is the
\* deprecated single token; env_auth_token and env_delete_token are the
\* AUTH_TOKEN and DELETE_TOKEN environment variables get_tokens reads.
\* server.max_content_length is 4 bytes: the bodies of the model are short.
BaseConfig ==
    [auth_token |-> None, auth_tokens |-> None, delete_tokens |-> Some({"d"}),
     env_auth_token |-> None, env_delete_token |-> None,
     expose_version |-> None, expose_list |-> None,
     handle_spaces |-> None, duplicate_files |-> None,
     delete_expired_files |-> Some([enabled |-> TRUE]),
     mime_blacklist |-> {}, max_content_length |-> 4,
     random_url |-> None, default_expiry |-> None]

\* str::trim().is_empty(), on the tokens the model configures
IsBlank(v) == v \in {"", " "}

\* get_tokens without the retain of line 185: blank tokens are kept.
get_tokens_unfiltered(cfg, token_type) ==
    LET Filtered(tokens) == IF tokens = {} THEN None ELSE Some(tokens)
    IN IF token_type = "Auth"
       THEN Filtered((UNION cfg.auth_tokens) \cup cfg.auth_token \cup cfg.env_auth_token)
       ELSE Filtered((UNION cfg.delete_tokens) \cup cfg.env_delete_token)

\* Config::get_tokens: the configured tokens of a type, blank ones dropped;
\* None when nothing is left.
get_tokens(cfg, token_type) ==
    LET Filtered(tokens) == IF tokens = {} THEN None ELSE Some(tokens)
        Retained(tokens) == Filtered({v \in tokens : ~IsBlank(v)})
    IN IF token_type = "Auth"
       THEN Retained((UNION cfg.auth_tokens) \cup cfg.auth_token \cup cfg.env_auth_token)
       ELSE Retained((UNION cfg.delete_tokens) \cup cfg.env_delete_token)

\* SpaceHandlingConfig::process_filename on one segment of a name: the model's
\* only word with a space is "a b".
ProcessWord(policy, seg) ==
    IF seg.w # "a b" THEN seg
    ELSE IF policy = "Encode" THEN [seg EXCEPT !.w = "a%20b"]
    ELSE [seg EXCEPT !.w = "a_b"]

\* SpaceHandlingConfig::process_filename
process_filename(policy, file_name) ==
    [i \in 1..Len(file_name) |-> ProcessWord(policy, file_name[i])]

\* PasteType::get_dir; the empty string is the empty sequence of components.
get_dir(type) ==
    CASE type = "Oneshot"    -> <<Nm("oneshot")>>
      [] type = "Url"        -> <<Nm("url")>>
      [] type = "OneshotUrl" -> <<Nm("oneshot_url")>>
      [] OTHER               -> <<>>

\* PasteType::get_path
get_path(type, path) ==
    LET InDir(dir) == IF dir = <<>> THEN Ok(path)
                      ELSE safe_path_join(path, P(FALSE, dir))
    IN InDir(get_dir(type))

\* is_oneshot answering true for every kind.
is_oneshot_any(type) == TRUE

\* PasteType::is_oneshot
is_oneshot(type) == type = "Oneshot"

\* The directories main.rs creates at start-up (create_dir_all), and "/".
Dirs == {<<>>, upload_path.comps}
        \cup {upload_path.comps \o get_dir(t) : t \in {"Url", "Oneshot", "OneshotUrl"}}

-----------------------------------------------------------------------------
(* The filesystem as the handlers see it (std::fs, tokio::fs) *)

\* The location the kernel resolves a path to (no symlinks; cwd is "/").
Loc(p) == Clean(P(TRUE, p.comps)).comps

EntryAt(fsys, p) == LET At(loc) == {e \in fsys : e.path = loc} IN At(Loc(p))
is_file(fsys, p) == EntryAt(fsys, p) # {}
is_dir(fsys, p) == Loc(p) \in Dirs
exists(fsys, p) == is_file(fsys, p) \/ is_dir(fsys, p)
InoAt(fsys, p) == (CHOOSE e \in EntryAt(fsys, p) : TRUE).ino

\* Path::file_name: the last component unless it is "..".
HasFileName(p) ==
    LET Named(c) == c # <<>> /\ Last(c) \notin {DotDot, Dot} IN Named(Components(p))
file_name_of(p) == Last(Components(p))

\* Path::extension: what follows the last '.', none for "name" and ".name".
HasExtension(name) == Len(name) >= 2 /\ ~(Len(name) = 2 /\ name[1] = W(""))

\* PathBuf::set_file_name: pop the file name, push the new one (which may be
\* a path of several components, or absolute).
set_file_name(p, newname) ==
    LET Popped(c) == IF HasFileName(p) THEN P(p.abs, Front(c)) ELSE P(p.abs, c)
    IN Join(Popped(Components(p)), newname)

\* PathBuf::set_extension: acts on the file name Path::file_name reports; the
\* string is cut after the file stem and "." extension is appended.
set_extension(p, ext) ==
    LET Stem(name) == IF HasExtension(name) THEN Front(name) ELSE name
        Renamed(c, stem) ==
            P(p.abs, Front(c) \o <<IF ext = Nm("") THEN stem ELSE stem \o ext>>)
        Set(c) == IF ~HasFileName(p) THEN p ELSE Renamed(c, Stem(Last(c)))
    IN Set(Components(p))

\* Path::with_file_name
with_file_name(p, newname) == set_file_name(p, P(FALSE, <<newname>>))

\* TIMESTAMP_EXTENSION_REGEX matches the end of the path string.
HasTimestampSuffix(name) ==
    /\ Len(name) >= 2
    /\ IsDigits(Last(name))
    /\ Last(name).n >= MinTimestamp

\* TIMESTAMP_EXTENSION_REGEX.replacen(path, 1, "")
StripTimestamp(p) ==
    IF p.comps = <<>> \/ ~HasTimestampSuffix(Last(p.comps)) THEN p
    ELSE LET stripped == Front(Last(p.comps)) IN
         IF stripped = Nm("") THEN P(p.abs, Front(p.comps))
         ELSE P(p.abs, Front(p.comps) \o <<stripped>>)

\* glob("<path>.[0-9]*"): the entries of path's directory named
\* "<file name>.<digit>...".
GlobTimestamped(fsys, p) ==
    LET In(dir, name) ==
            {e \in fsys :
               /\ Len(e.path) = Len(dir) + 1
               /\ Front(e.path) = dir
               /\ Len(Last(e.path)) > Len(name)
               /\ IsPrefix(name, Last(e.path))
               /\ IsDigits(Last(e.path)[Len(name) + 1])}
    IN IF p.comps = <<>> THEN {}
       ELSE In(Loc(P(p.abs, Front(p.comps))), Last(p.comps))

\* Paths come out of glob in alphabetical order; Iterator::last takes the greatest.
GlobLast(matches) ==
    CHOOSE e \in matches :
        \A o \in matches : o = e \/ LexLess(NameCode(Last(o.path)), NameCode(Last(e.path)))

\* util::glob_match_file
glob_match_file(fsys, time, p) ==
    LET Unexpired(path, glob_name, extension) ==
            IF IsDigits(extension) /\ time < extension.n
            THEN P(path.abs, Front(path.comps) \o <<glob_name>>)
            ELSE path
        Newest(path, glob_name) == Unexpired(path, glob_name, Last(glob_name))
        Matched(path, matches) ==
            IF matches = {} THEN path
            ELSE Newest(path, Last(GlobLast(matches).path))
        Globbed(path) == Matched(path, GlobTimestamped(fsys, path))
    IN Globbed(StripTimestamp(p))

\* glob("<dir>/*.[0-9]*"): names with a '.' followed by a digit.
GlobAnyTimestamped(fsys, dir) ==
    {e \in fsys :
       /\ Len(e.path) = Len(dir) + 1
       /\ Front(e.path) = dir
       /\ \E i \in 2..Len(Last(e.path)) : IsDigits(Last(e.path)[i])}

\* get_expired_files, lines 63-70: the directories of the four kinds under
\* server.upload_path, the base path main.rs passes
ExpiredFilePaths ==
    {Loc(get_path(t, upload_path).path) : t \in {"File", "Oneshot", "Url", "OneshotUrl"}}

\* util::get_expired_files(&upload_path)
get_expired_files(fsys, time) ==
    LET Expired(name) ==
            /\ HasExtension(name)
            /\ IsDigits(Last(name))
            /\ time > Last(name).n
    IN {e \in UNION {GlobAnyTimestamped(fsys, dir) : dir \in ExpiredFilePaths} :
          Expired(Last(e.path))}

-----------------------------------------------------------------------------
(* URLs: what url::Url::parse, Url::scheme, Url::host_str, the resolver and *)
(* Url::to_string yield for the request bodies the model uploads           *)

NotUtf8 == "\\xff"       \* a body str::from_utf8 rejects

UrlInfo(s) ==
    CASE s = "https://example.org" ->
           [parses |-> TRUE, scheme |-> "https", host |-> "example.org",
            ip |-> <<93, 184, 216, 34>>, last |-> <<>>, str |-> "https://example.org/"]
      [] s = "http://example.org/a.txt" ->
           [parses |-> TRUE, scheme |-> "http", host |-> "example.org",
            ip |-> <<93, 184, 216, 34>>, last |-> <<W("a"), W("txt")>>, str |-> s]
      [] s = "ftp://example.org/a.txt" ->
           [parses |-> TRUE, scheme |-> "ftp", host |-> "example.org",
            ip |-> <<93, 184, 216, 34>>, last |-> <<W("a"), W("txt")>>, str |-> s]
      [] s = "http://localhost/a.txt" ->
           [parses |-> TRUE, scheme |-> "http", host |-> "localhost",
            ip |-> <<127, 0, 0, 1>>, last |-> <<W("a"), W("txt")>>, str |-> s]
      [] s = "http://169.254.169.254/a.txt" ->
           [parses |-> TRUE, scheme |-> "http", host |-> "169.254.169.254",
            ip |-> <<169, 254, 169, 254>>, last |-> <<W("a"), W("txt")>>, str |-> s]
      [] s = "http://intranet.example/a.txt" ->
           [parses |-> TRUE, scheme |-> "http", host |-> "intranet.example",
            ip |-> <<10, 0, 0, 1>>, last |-> <<W("a"), W("txt")>>, str |-> s]
      [] OTHER ->       \* "testurl.com": a relative URL without a base
           [parses |-> FALSE, scheme |-> "", host |-> "",
            ip |-> <<0, 0, 0, 0>>, last |-> <<>>, str |-> ""]

from_utf8_ok(s) == s # NotUtf8

\* util::is_disallowed_ipv4, on the four octets
is_disallowed_ipv4(o) ==
    \/ o[1] = 127                                       \* is_loopback
    \/ o[1] = 10                                        \* is_private
    \/ (o[1] = 172 /\ o[2] >= 16 /\ o[2] <= 31)
    \/ (o[1] = 192 /\ o[2] = 168)
    \/ (o[1] = 169 /\ o[2] = 254)                       \* is_link_local
    \/ (o[1] >= 224 /\ o[1] <= 239)                     \* is_multicast
    \/ o = <<255, 255, 255, 255>>                       \* is_broadcast
    \/ (o[1] = 192 /\ o[2] = 0 /\ o[3] = 2)             \* is_documentation
    \/ (o[1] = 198 /\ o[2] = 51 /\ o[3] = 100)
    \/ (o[1] = 203 /\ o[2] = 0 /\ o[3] = 113)
    \/ o = <<0, 0, 0, 0>>                               \* is_unspecified
    \/ (o[1] = 100 /\ o[2] >= 64 /\ o[2] <= 127)        \* 100.64.0.0/10
    \/ (o[1] = 198 /\ (o[2] = 18 \/ o[2] = 19))         \* 198.18.0.0/15
    \/ (o[1] = 192 /\ o[2] = 0 /\ o[3] = 0)             \* 192.0.0.0/24
    \/ o[1] >= 240                                      \* 240.0.0.0/4
    \/ o = <<169, 254, 169, 254>>

\* Ipv6Addr::to_ipv4 on the eight segments: an address of the forms
\* ::a.b.c.d and ::ffff:a.b.c.d is converted, the octets being the bytes of
\* the last two segments.
to_ipv4(seg) ==
    IF SubSeq(seg, 1, 5) = <<0, 0, 0, 0, 0>> /\ seg[6] \in {0, 65535}
    THEN Some(<<seg[7] \div 256, seg[7] % 256, seg[8] \div 256, seg[8] % 256>>)
    ELSE None

\* util::is_disallowed_ipv6, on the eight segments
is_disallowed_ipv6(seg) ==
    IF to_ipv4(seg) # None THEN \E v4 \in to_ipv4(seg) : is_disallowed_ipv4(v4)
    ELSE \/ seg = <<0, 0, 0, 0, 0, 0, 0, 1>>             \* is_loopback
         \/ seg = <<0, 0, 0, 0, 0, 0, 0, 0>>             \* is_unspecified
         \/ seg[1] \div 256 = 255                        \* is_multicast, ff00::/8
         \/ seg[1] \div 512 = 126                        \* is_unique_local, fc00::/7
         \/ seg[1] \div 64 = 1018                        \* is_unicast_link_local, fe80::/10
         \/ (seg[1] = 8193 /\ seg[2] = 3512)             \* 2001:db8::/32

\* util::validate_remote_url: TRUE when the URL is let through
validate_remote_url(url) ==
    /\ url.scheme \in {"http", "https"}
    /\ url.host # ""
    /\ url.host # "localhost"
    /\ ~is_disallowed_ipv4(url.ip)

\* awc::ClientRequest::send, as called by store_remote_file: the client turns
\* down a URI whose scheme is none of its own before it connects.
client_sends(url) == url.scheme \in {"http", "https", "ws", "wss"}

-----------------------------------------------------------------------------
(* auth.rs: the grants of a request *)

\* extract_tokens, lines 22-26 and 31: the token is the last word of the
\* Authorization header, the empty string when there is no header.  The header
\* is None or Some(the sequence of its words).
HeaderToken(authorization) ==
    LET LastWord(words) == IF words = <<>> THEN "" ELSE Last(words)
    IN IF authorization = None THEN ""
       ELSE LastWord(CHOOSE words \in authorization : TRUE)

\* extract_tokens with one grant for both token types: whoever holds the Auth
\* grant is given the Delete grant as well.
extract_tokens_one_grant(cfg, method, authorization) ==
    LET Granted(maybe_tokens, token) ==
            IF maybe_tokens # None /\ token \notin UNION maybe_tokens THEN {}
            ELSE {"Auth", "Delete"}
    IN [status |-> 0,
        user_tokens |-> Granted(get_tokens(cfg, "Auth"), HeaderToken(authorization))]

\* extract_tokens: status 404 when a DELETE arrives and no delete token is
\* configured, else the set of token types the request is granted.
extract_tokens(cfg, method, authorization) ==
    LET Granted(token_type, maybe_tokens, token) ==
            IF maybe_tokens # None
            THEN IF token \in UNION maybe_tokens THEN {token_type} ELSE {}
            ELSE IF token_type = "Auth" THEN {token_type} ELSE {}
        Extracted(token, auth, delete) ==
            IF delete = None /\ method = "DELETE"
            THEN [status |-> 404, user_tokens |-> {}]
            ELSE [status |-> 0,
                  user_tokens |-> Granted("Auth", auth, token)
                                  \cup Granted("Delete", delete, token)]
    IN Extracted(HeaderToken(authorization),
                 get_tokens(cfg, "Auth"), get_tokens(cfg, "Delete"))

\* GrantsMiddleware::with_extractor(extract_tokens) and the protect attribute
\* of a handler (error = unauthorized_error): status 0 lets the handler run.
Protect(cfg, method, authorization, token_type) ==
    LET Checked(extracted) ==
            IF extracted.status # 0 THEN [status |-> extracted.status, body |-> ""]
            ELSE IF token_type \notin extracted.user_tokens
                 THEN [status |-> 401, body |-> "unauthorized\n"]
            ELSE [status |-> 0, body |-> ""]
    IN Checked(extract_tokens(cfg, method, authorization))

-----------------------------------------------------------------------------
(* Requests *)

Procs == 1..MaxReqs

NoContent == [data |-> "", by |-> 0]
NoHeader == [some |-> FALSE, path |-> NoPath]
SomeHeader(p) == [some |-> TRUE, path |-> p]

NoReq == [op |-> "none", pc |-> "idle", file |-> NoPath, kind |-> "", data |-> "", url |-> "",
          expiry |-> 0, header |-> NoHeader, path |-> NoPath, ptype |-> "",
          ino |-> -1, t |-> 0, status |-> 0, body |-> NoContent,
          served |-> <<>>, consumed |-> -1, wrote |-> <<>>,
          authorization |-> None, dedup |-> FALSE, items |-> {},
          content_length |-> None, form_field |-> "",
          parts |-> <<>>, urls |-> <<>>]

\* A response body that is a text of the server, not the bytes of a file.
Text(s) == [data |-> s, by |-> 0]

\* The request is answered by the middleware or by the protect attribute.
Refused(q, grant) == [q EXCEPT !.pc = "done", !.status = grant.status,
                               !.body = Text(grant.body)]

InFlight == {p \in DOMAIN req : req[p].pc \notin {"idle", "done"}}

\* The handler returns: its locals are dropped, its answer is kept.
Done(r, status) == [r EXCEPT !.pc = "done", !.status = status, !.path = NoPath,
                             !.t = IF r.op = "get" THEN r.t ELSE 0,
                             !.urls = IF status = 200 THEN r.urls ELSE <<>>]

\* An std::io::Error leaves a handler as 404 when its kind is NotFound and as
\* 500 otherwise (actix-web's ResponseError for io::Error).

-----------------------------------------------------------------------------
(* server.rs: serve *)

RECURSIVE ProbeKinds(_, _, _, _, _)
\* serve, lines 95-105: the first kind-directory whose resolved path exists,
\* or whose name the requested name equals.
ProbeKinds(fsys, time, file, path, types) ==
    LET Probed(type_, alt_path) ==
            IF \/ exists(fsys, alt_path)
               \/ (HasFileName(path) /\ <<file_name_of(path)>> = get_dir(type_))
            THEN [status |-> 0, path |-> alt_path, ptype |-> type_]
            ELSE ProbeKinds(fsys, time, file, path, Tail(types))
        Joined(type_, joined) ==
            IF ~joined.ok THEN [status |-> 500, path |-> path, ptype |-> "File"]
            ELSE Probed(type_, glob_match_file(fsys, time, joined.path))
        InDir(type_, dir) ==
            Joined(type_, IF dir.ok THEN safe_path_join(dir.path, file) ELSE Err)
    IN IF types = <<>> THEN [status |-> 0, path |-> path, ptype |-> "File"]
       ELSE InDir(Head(types), get_path(Head(types), upload_path))

\* serve, line 95: the order in which the kind-directories are probed
ProbeOrder == <<"Url", "Oneshot", "OneshotUrl">>

\* serve, lines 92-106
ServeResolve(fsys, time, file) ==
    LET Found(path) ==
            IF ~exists(fsys, path) \/ is_dir(fsys, path)
            THEN ProbeKinds(fsys, time, file, path, ProbeOrder)
            ELSE [status |-> 0, path |-> path, ptype |-> "File"]
        Joined(joined) ==
            IF ~joined.ok THEN [status |-> 500, path |-> NoPath, ptype |-> "File"]
            ELSE Found(glob_match_file(fsys, time, joined.path))
    IN Joined(safe_path_join(upload_path, file))

\* GET /{file} arrives: serve runs up to line 106.
GetStart(p, file) ==
    /\ req[p].pc = "idle"
    /\ \E r \in {ServeResolve(fs, now, file)} :
       \E q \in {[req[p] EXCEPT !.op = "get", !.file = file, !.t = now,
                                 !.path = r.path, !.ptype = r.ptype]} :
          req' = [req EXCEPT ![p] = IF r.status # 0 THEN Done(q, r.status)
                                    ELSE [q EXCEPT !.pc = "check"]]
    /\ started' = started + 1
    /\ UNCHANGED <<now, fs, content, reaper, reaped, fetched, pj, config, paste_config, config_receiver, config_file>>

\* serve, lines 107-109
ServeCheck(p) ==
    /\ req[p].op = "get" /\ req[p].pc = "check"
    /\ req' = [req EXCEPT ![p] =
                 IF ~is_file(fs, req[p].path) \/ ~exists(fs, req[p].path)
                 THEN Done(req[p], 404)
                 ELSE [req[p] EXCEPT !.pc = "open"]]
    /\ UNCHANGED <<now, fs, content, started, reaper, reaped, fetched, pj, config, paste_config, config_receiver, config_file>>

\* serve, lines 118 (NamedFile::open), 136 and 140 (fs::read_to_string)
ServeOpen(p) ==
    /\ req[p].op = "get" /\ req[p].pc = "open"
    /\ LET r == req[p]
           Opened(q) ==
               CASE is_oneshot(r.ptype) \/ r.ptype = "OneshotUrl" -> [q EXCEPT !.pc = "rename"]
                 [] r.ptype = "Url" -> Done(q, 302)
                 [] OTHER -> Done(q, 200)
           Open(ino) == Opened([r EXCEPT !.ino = ino, !.body = content[ino]])
       IN req' = [req EXCEPT ![p] =
                    IF ~is_file(fs, r.path) THEN Done(r, 404)
                    ELSE Open(InoAt(fs, r.path))]
    /\ UNCHANGED <<now, fs, content, started, reaper, reaped, fetched, pj, config, paste_config, config_receiver, config_file>>

\* The tombstone name: format!("{}.{}", file, now_ms)
Tombstone(file, time) == file_name_of(file) \o <<N(time)>>

\* serve, lines 123-133 and 142-146: fs::rename to the tombstone name
ServeRename(p) ==
    /\ req[p].op = "get" /\ req[p].pc = "rename"
    /\ LET r == req[p] IN
       IF ~is_file(fs, r.path)
       THEN /\ req' = [req EXCEPT ![p] = Done([r EXCEPT !.body = NoContent], 404)]
            /\ fs' = fs
       ELSE \E from \in {Loc(r.path)},
               to \in {Loc(with_file_name(r.path, Tombstone(r.file, now)))},
               src \in {InoAt(fs, r.path)} :
               /\ fs' = {e \in fs : e.path # from /\ e.path # to}
                          \cup {[path |-> to, ino |-> src]}
               /\ req' = [req EXCEPT ![p] =
                            Done([r EXCEPT !.consumed = content[src].by,
                                           !.body = IF r.ptype = "Oneshot"
                                                    THEN content[r.ino] ELSE r.body],
                                 IF r.ptype = "Oneshot" THEN 200 ELSE 302)]
    /\ UNCHANGED <<now, content, started, reaper, reaped, fetched, pj, config, paste_config, config_receiver, config_file>>

-----------------------------------------------------------------------------
(* server.rs: delete *)

\* DELETE /{file} arrives: the grants are checked (line 153) and delete runs
\* up to line 164.
DeleteStart(p, authorization, file) ==
    /\ req[p].pc = "idle"
    /\ LET q == [req[p] EXCEPT !.op = "delete", !.file = file, !.t = now,
                               !.authorization = authorization]
           Found(path) ==
               IF ~is_file(fs, path) \/ ~exists(fs, path) THEN Done(q, 404)
               ELSE [q EXCEPT !.pc = "remove", !.path = path]
           Joined(joined) ==
               IF ~joined.ok THEN Done(q, 500)
               ELSE Found(glob_match_file(fs, now, joined.path))
           Granted(grant) ==
               IF grant.status # 0 THEN Refused(q, grant)
               ELSE Joined(safe_path_join(upload_path, file))
       IN req' = [req EXCEPT ![p] =
                    Granted(Protect(config, "DELETE", authorization, "Delete"))]
    /\ started' = started + 1
    /\ UNCHANGED <<now, fs, content, reaper, reaped, fetched, pj, config, paste_config, config_receiver, config_file>>

\* delete, lines 165-172: fs::remove_file
DeleteRemove(p) ==
    /\ req[p].op = "delete" /\ req[p].pc = "remove"
    /\ IF is_file(fs, req[p].path)
       THEN /\ \E loc \in {Loc(req[p].path)} : fs' = {e \in fs : e.path # loc}
            /\ req' = [req EXCEPT ![p] =
                         Done([req[p] EXCEPT !.body = Text("file deleted\n")], 200)]
       ELSE /\ fs' = fs
            /\ req' = [req EXCEPT ![p] = Done(req[p], 500)]
    /\ UNCHANGED <<now, content, started, reaper, reaped, fetched, pj, config, paste_config, config_receiver, config_file>>

-----------------------------------------------------------------------------
(* server.rs: version, list *)

\* GET /version: the grants are checked (line 178), then expose_version.
VersionReq(p, authorization) ==
    /\ req[p].pc = "idle"
    /\ LET q == [req[p] EXCEPT !.op = "version", !.t = now,
                               !.authorization = authorization]
           Exposed ==
               IF ~(\E expose \in config.expose_version : expose) THEN Done(q, 404)
               ELSE Done([q EXCEPT !.body = Text("CARGO_PKG_VERSION\n")], 200)
           Granted(grant) == IF grant.status # 0 THEN Refused(q, grant) ELSE Exposed
       IN req' = [req EXCEPT ![p] =
                    Granted(Protect(config, "GET", authorization, "Auth"))]
    /\ started' = started + 1
    /\ UNCHANGED <<now, fs, content, reaper, reaped, fetched, pj, config, paste_config, config_receiver, config_file>>

\* GET /list: the grants are checked (line 340), then expose_list.  Lines
\* 352-400 list the entries of the upload directory that are files: an
\* extension that parses as an integer is cut off the name and read as the
\* expiry, and entries whose expiry has passed are left out.
ListReq(p, authorization) ==
    /\ req[p].pc = "idle"
    /\ LET q == [req[p] EXCEPT !.op = "list", !.t = now,
                               !.authorization = authorization]
           Expiring(name) == HasExtension(name) /\ IsDigits(Last(name))
           Item(name) ==
               IF Expiring(name)
               THEN [file_name |-> Front(name), expires_at_utc |-> Some(Last(name).n)]
               ELSE [file_name |-> name, expires_at_utc |-> None]
           Listed(name) == ~(Expiring(name) /\ now > Last(name).n)
           Names == {Last(e.path) : e \in {f \in fs : Front(f.path) = Loc(upload_path)}}
           Exposed ==
               IF ~(\E expose \in config.expose_list : expose) THEN Done(q, 404)
               ELSE Done([q EXCEPT !.items = {Item(name) : name \in {n \in Names : Listed(n)}}],
                         200)
           Granted(grant) == IF grant.status # 0 THEN Refused(q, grant) ELSE Exposed
       IN req' = [req EXCEPT ![p] =
                    Granted(Protect(config, "GET", authorization, "Auth"))]
    /\ started' = started + 1
    /\ UNCHANGED <<now, fs, content, reaper, reaped, fetched, pj, config, paste_config, config_receiver, config_file>>

-----------------------------------------------------------------------------
(* paste.rs: store_file, store_url, store_remote_file *)

\* store_file, line 103: infer::get sniffs the type of the bytes by their
\* magic number ("%PDF" is the model's only body with one).
infer_get(bytes) ==
    IF bytes = "%PDF" THEN Some([mime_type |-> "application/pdf", extension |-> Nm("pdf")])
    ELSE None

\* store_file, lines 104-112: the upload is refused when paste.mime_blacklist
\* names the inferred type.
Blacklisted(cfg, data) ==
    \E file_type \in infer_get(data) : file_type.mime_type \in cfg.mime_blacklist

\* store_file, lines 113-121: the base name of the uploaded file name
BaseName(file) ==
    LET Named(v) == IF v = Nm("-") THEN Nm("stdin") ELSE v
    IN IF ~HasFileName(file) \/ file_name_of(file) = Nm("") THEN Nm("file")
       ELSE Named(file_name_of(file))

\* store_file, lines 122-124, and upload, lines 313-315: server.handle_spaces
HandleSpaces(cfg, file_name) ==
    IF cfg.handle_spaces = None THEN file_name
    ELSE process_filename(CHOOSE policy \in cfg.handle_spaces : TRUE, file_name)

\* store_file, lines 128-154: stem and extension of the name split on '.';
\* without an extension the one of the inferred file type, else
\* paste.default_extension.
StemOf(parts) == IF parts[1] = W("") THEN <<W(""), parts[2]>> ELSE <<parts[1]>>
LowerBound(parts) == IF parts[1] = W("") THEN 2 ELSE 1
ExtensionOf(parts, file_type) ==
    IF Len(parts) > LowerBound(parts)
    THEN SubSeq(parts, LowerBound(parts) + 1, Len(parts))
    ELSE IF file_type = None THEN default_extension
    ELSE (CHOOSE t \in file_type : TRUE).extension

\* RandomURLConfig::generate, for paste.random_url of a configuration: None
\* when it is unset or disabled, else some random text (a pet name or an
\* alphanumeric string: one segment, the separator is not '.').
generate(cfg) ==
    IF cfg.random_url = None \/ (\E r \in cfg.random_url : r.enabled = Some(FALSE))
    THEN {None}
    ELSE {Some(Nm(text)) : text \in {"r1", "r2"}}

\* store_file, lines 170-173: the filename header replaces the file name
HeaderOverride(path, header) ==
    IF header.some THEN set_file_name(path, header.path) ELSE path

\* store_file, lines 179-184: the collision check
Conflict(fsys, time, path) ==
    LET Taken(file_path) == is_file(fsys, file_path) /\ exists(fsys, file_path)
    IN Taken(glob_match_file(fsys, time, path))

\* store_file, lines 103-187: everything before File::create.  The result is
\* a status (0: go on to create the file), the path to create and the served
\* name.  random_text is what random_url.generate() returned (lines 155-167).
StoreFilePrep(cfg, fsys, time, type_, file, data, random_text, expiry_date, header) ==
    LET Failed(status) == [status |-> status, path |-> NoPath, name |-> <<>>]
        Checked(path, final_name) ==
            IF Conflict(fsys, time, path) THEN Failed(409)
            ELSE [status |-> 0,
                  path |-> IF expiry_date # 0
                           THEN set_file_name(path, P(FALSE, <<final_name \o <<N(expiry_date)>>>>))
                           ELSE path,
                  name |-> final_name]
        Overridden(path) ==
            Checked(path, IF HasFileName(path) THEN file_name_of(path) ELSE Nm(""))
        suffix_mode == \E r \in cfg.random_url : r.suffix_mode = Some(TRUE)
        Randomized(stem, extension) ==
            IF random_text = None THEN [file_name |-> stem, extension |-> extension]
            ELSE IF suffix_mode
                 THEN [file_name |-> stem,
                       extension |-> (CHOOSE r \in random_text : TRUE) \o extension]
                 ELSE [file_name |-> CHOOSE r \in random_text : TRUE,
                       extension |-> extension]
        Set(path, n) ==
            set_extension(set_file_name(path, P(FALSE, <<n.file_name>>)), n.extension)
        Named(file_name, joined) ==
            IF ~joined.ok THEN Failed(500)
            ELSE Overridden(HeaderOverride(
                     Set(joined.path,
                         Randomized(StemOf(file_name),
                                    ExtensionOf(file_name, infer_get(data)))),
                     header))
        InDir(file_name, dir) ==
            Named(file_name,
                  IF dir.ok THEN safe_path_join(dir.path, P(FALSE, <<file_name>>)) ELSE Err)
    IN InDir(HandleSpaces(cfg, BaseName(file)), get_path(type_, upload_path))

\* store_url, lines 262-264: str::from_utf8 and Url::parse
UrlAccepted(data) == from_utf8_ok(data) /\ UrlInfo(data).parses

\* store_url, lines 262-275: everything before fs::write
StoreUrlPrep(type_, data, expiry_date) ==
    LET Joined(file_name, joined) ==
            IF ~UrlAccepted(data) \/ ~joined.ok
            THEN [status |-> 500, path |-> NoPath, name |-> <<>>]
            ELSE [status |-> 0,
                  path |-> IF expiry_date # 0
                           THEN set_file_name(joined.path,
                                              P(FALSE, <<file_name \o <<N(expiry_date)>>>>))
                           ELSE joined.path,
                  name |-> file_name]
        InDir(file_name, dir) ==
            Joined(file_name,
                   IF dir.ok THEN safe_path_join(dir.path, P(FALSE, <<file_name>>)) ELSE Err)
    IN InDir(get_dir(type_)[1], get_path(type_, upload_path))

\* store_remote_file, lines 207-208: str::from_utf8 and Url::parse
RemoteUrlAccepted(data) == from_utf8_ok(data) /\ UrlInfo(data).parses

\* store_remote_file, lines 209-213: the file name is the last path segment
RemoteFileName(data) ==
    LET Named(name) == IF name = <<>> THEN P(FALSE, <<Nm("file")>>) ELSE P(FALSE, <<name>>)
    IN Named(UrlInfo(data).last)

-----------------------------------------------------------------------------
(* file.rs: the directory scan behind the duplicate check *)

\* util::sha256_digest: equal digests stand for equal bytes.
sha256_digest(bytes) == <<"sha256", bytes>>

\* The path string of a directory entry, for the order of the walk.
RECURSIVE PathCode(_)
PathCode(loc) ==
    IF loc = <<>> THEN <<>>
    ELSE <<47>> \o NameCode(Head(loc)) \o PathCode(Tail(loc))

\* Directory::try_from(dir): every regular file below dir, at any depth, with
\* the digest of its bytes.
Directory(fsys, cont, dir) ==
    {[path |-> e.path, sha256sum |-> sha256_digest(cont[e.ino].data)] :
        e \in {f \in fsys : IsPrefix(Loc(dir), f.path) /\ Len(f.path) > Len(Loc(dir))}}

\* Directory::get_file: the first file of the walk with the digest whose name
\* does not match the timestamp regex; None or Some(file).
get_file(files, sha256sum) ==
    LET First(matches) ==
            IF matches = {} THEN None
            ELSE Some(CHOOSE f \in matches :
                        \A o \in matches : ~LexLess(PathCode(o.path), PathCode(f.path)))
    IN First({f \in files : /\ f.sha256sum = sha256sum
                             /\ ~HasTimestampSuffix(Last(f.path))})

\* upload, line 254, and store_remote_file, line 232:
\* !config.paste.duplicate_files.unwrap_or(true)
DuplicatesRefused(cfg) == cfg.duplicate_files = Some(FALSE)

-----------------------------------------------------------------------------
(* server.rs: upload (one multipart field per request) *)

\* parse_expiry_date finding no 'expire' header whatever is sent.
parse_expiry_date_none(time, dur) == 0

\* header::parse_expiry_date: the request time plus the 'expire' duration
\* (dur = 0: no 'expire' header; the result 0 is None)
parse_expiry_date(time, dur) == IF dur = 0 THEN 0 ELSE time + dur

\* upload, lines 215-223: without an expiry from the header, the request time
\* plus paste.default_expiry when that is configured.
DefaultExpiry(cfg, time, expiry_date) ==
    IF expiry_date # 0 \/ cfg.default_expiry = None THEN expiry_date
    ELSE time + (CHOOSE v \in cfg.default_expiry : TRUE)

\* upload, lines 245-255: the kinds and requests the duplicate check applies to
ChecksDuplicate(cfg, type_, expiry_date) ==
    /\ type_ # "Oneshot" /\ type_ # "RemoteFile" /\ type_ # "OneshotUrl"
    /\ expiry_date = 0
    /\ DuplicatesRefused(cfg)

\* upload, lines 316 and 322, with the last part's line in place of all of
\* them: the answer names only the last part.
PartDoneLast(r) ==
    LET url == [name |-> r.served, wrote |-> r.wrote]
    IN IF Len(r.urls) + 1 = Len(r.parts)
       THEN Done([r EXCEPT !.urls = <<url>>], 200)
       ELSE [r EXCEPT !.pc = "next", !.path = NoPath, !.urls = <<url>>]

\* upload, lines 316 and 322: the line of the part is pushed to urls, and the
\* loop goes on to the next part; after the last one the answer is 200 with
\* the lines joined.  (wrote: what the part created, for the record.)
PartDone(r) ==
    LET url == [name |-> r.served, wrote |-> r.wrote]
    IN IF Len(r.urls) + 1 = Len(r.parts)
       THEN Done([r EXCEPT !.urls = Append(r.urls, url)], 200)
       ELSE [r EXCEPT !.pc = "next", !.path = NoPath, !.urls = Append(r.urls, url)]

\* upload, lines 236-309, for the part in q: the part is handled up to the
\* first write to disk (or, for a remote file, up to the GET it sends).  On a
\* duplicate (lines 256-272) the name of the stored file is the part's line.
UploadPartBody(q, random_text) ==
    LET Stored(prep) ==
            IF prep.status # 0 THEN Done(q, prep.status)
            ELSE [q EXCEPT !.pc = "create", !.path = prep.path, !.served = prep.name]
        Store ==
            IF q.kind = "RemoteFile"
            THEN IF RemoteUrlAccepted(q.data) THEN [q EXCEPT !.pc = "fetch"]
                 ELSE Done(q, 400)
            ELSE IF q.kind \in {"File", "Oneshot"}
                 THEN IF q.file.comps = <<>> THEN Done(q, 400)
                      ELSE IF Blacklisted(config, q.data) THEN Done(q, 415)
                      ELSE Stored(StoreFilePrep(config, fs, now, q.kind, q.file, q.data,
                                                random_text, q.expiry, q.header))
            ELSE Stored(StoreUrlPrep(q.kind, q.data, q.expiry))
        Deduplicated(found) ==
            IF found = None THEN Store
            ELSE PartDone([q EXCEPT !.dedup = TRUE,
                                    !.served = Last((CHOOSE f \in found : TRUE).path)])
    IN IF q.data = "" THEN Done(q, 400)
       ELSE IF ChecksDuplicate(config, q.kind, q.expiry)
            THEN Deduplicated(get_file(Directory(fs, content, upload_path),
                                       sha256_digest(q.data)))
       ELSE Store

\* POST / arrives with the parts of its payload: the grants are checked (line
\* 193), the expiry is taken from the headers (lines 214-223) and the first
\* part is handled.
UploadMultipart(p, authorization, parts, dur, header) ==
    /\ req[p].pc = "idle"
    /\ \E random_text \in generate(config), first \in {Head(parts)} :
       LET q == [req[p] EXCEPT !.op = "upload", !.kind = first.type_, !.file = first.file,
                               !.data = first.data,
                               !.expiry = DefaultExpiry(config, now,
                                                        parse_expiry_date(now, dur)),
                               !.header = header, !.t = now,
                               !.authorization = authorization,
                               !.url = IF first.type_ = "RemoteFile" THEN first.data ELSE "",
                               !.parts = parts]
           Granted(grant) ==
               IF grant.status # 0 THEN Refused(q, grant)
               ELSE UploadPartBody(q, random_text)
       IN req' = [req EXCEPT ![p] =
                    Granted(Protect(config, "POST", authorization, "Auth"))]
    /\ started' = started + 1
    /\ UNCHANGED <<now, fs, content, reaper, reaped, fetched, pj, config, paste_config, config_receiver, config_file>>

\* POST / with a payload of one part
UploadStart(p, authorization, type_, file, data, dur, header) ==
    UploadMultipart(p, authorization,
                    <<[type_ |-> type_, file |-> file, data |-> data]>>, dur, header)

\* upload, line 225: the loop takes the next part of the payload.
UploadNextPart(p) ==
    /\ req[p].op = "upload" /\ req[p].pc = "next"
    /\ \E random_text \in generate(config),
          part \in {req[p].parts[Len(req[p].urls) + 1]} :
          req' = [req EXCEPT ![p] =
                    UploadPartBody([req[p] EXCEPT !.kind = part.type_, !.file = part.file,
                                                  !.data = part.data,
                                                  !.url = IF part.type_ = "RemoteFile"
                                                          THEN part.data ELSE "",
                                                  !.dedup = FALSE, !.served = <<>>,
                                                  !.wrote = <<>>, !.ino = -1],
                                   random_text)]
    /\ UNCHANGED <<now, fs, content, started, reaper, reaped, fetched, pj, config, paste_config, config_receiver, config_file>>

\* store_remote_file, lines 214-251: the GET is sent, the body is read up to
\* server.max_content_length bytes (a longer one is an error of the client,
\* lines 225-229) and handed to store_file.  body = "" stands for a failed
\* request.
RemoteFetch(p, body) ==
    /\ req[p].op = "upload" /\ req[p].pc = "fetch"
    /\ \E random_text \in generate(config) :
       LET r == req[p]
           Stored(prep) ==
               IF prep.status # 0 THEN Done([r EXCEPT !.data = body], prep.status)
               ELSE [r EXCEPT !.data = body, !.pc = "create", !.path = prep.path,
                              !.served = prep.name]
           Deduplicated(found) ==
               IF found = None
               THEN IF Blacklisted(config, body) THEN Done([r EXCEPT !.data = body], 415)
                    ELSE Stored(StoreFilePrep(config, fs, now, "RemoteFile",
                                              RemoteFileName(r.data), body, random_text,
                                              r.expiry, NoHeader))
               ELSE PartDone([r EXCEPT !.data = body, !.dedup = TRUE,
                                       !.served = HandleSpaces(config,
                                           Last((CHOOSE f \in found : TRUE).path))])
       IN IF ~client_sends(UrlInfo(r.data))
          THEN /\ fetched' = fetched
               /\ req' = [req EXCEPT ![p] = Done(r, 500)]
          ELSE /\ fetched' = fetched \cup {r.data}
               /\ req' = [req EXCEPT ![p] =
                    IF body = "" \/ Len(body) > config.max_content_length
                    THEN Done(r, 500)
                    ELSE IF DuplicatesRefused(config) /\ r.expiry = 0
                         THEN Deduplicated(get_file(Directory(fs, content, upload_path),
                                                    sha256_digest(body)))
                    ELSE Deduplicated(None)]
    /\ UNCHANGED <<now, fs, content, started, reaper, reaped, pj, config, paste_config, config_receiver, config_file>>

\* File::create (store_file, line 188) and the open of fs::write (store_url,
\* line 276): O_CREAT | O_TRUNC
Create(fsys, path) ==
    LET At(loc) == IF loc = <<>> \/ loc \in Dirs THEN "isdir"
                   ELSE IF Front(loc) \notin Dirs THEN "notfound"
                   ELSE IF \E e \in fsys : e.path = loc THEN "trunc"
                   ELSE "new"
    IN At(Loc(path))

\* store_file, line 188; store_url, line 276
UploadCreate(p) ==
    /\ req[p].op = "upload" /\ req[p].pc = "create"
    /\ LET r == req[p] IN
       \E how \in {Create(fs, r.path)}, loc \in {Loc(r.path)} :
       \E ino \in {IF how = "trunc" THEN InoAt(fs, r.path)
                   ELSE p + Len(r.urls) * (MaxReqs + 1)} :
          CASE how = "isdir" ->
                 /\ req' = [req EXCEPT ![p] = Done(r, 500)]
                 /\ UNCHANGED <<fs, content>>
            [] how = "notfound" ->
                 /\ req' = [req EXCEPT ![p] = Done(r, 404)]
                 /\ UNCHANGED <<fs, content>>
            [] OTHER ->
                 /\ fs' = fs \cup {[path |-> loc, ino |-> ino]}
                 /\ content' = [content EXCEPT ![ino] = [data |-> "", by |-> p]]
                 /\ req' = [req EXCEPT ![p] = [r EXCEPT !.pc = "write", !.ino = ino,
                                                        !.wrote = loc]]
    /\ UNCHANGED <<now, started, reaper, reaped, fetched, pj, config, paste_config, config_receiver, config_file>>

\* The bytes written: store_file writes the data, store_url the URL's string form.
Written(r) == IF r.kind \in {"Url", "OneshotUrl"} THEN UrlInfo(r.data).str ELSE r.data

\* store_file, lines 189-190; store_url, lines 276-277; upload, lines 310-322:
\* the name in the answer is the stored name under the server.handle_spaces of
\* the configuration read anew (line 311).
UploadWrite(p) ==
    /\ req[p].op = "upload" /\ req[p].pc = "write"
    /\ content' = [content EXCEPT ![req[p].ino] = [data |-> Written(req[p]), by |-> p]]
    /\ req' = [req EXCEPT ![p] =
                 PartDone([req[p] EXCEPT !.served = HandleSpaces(config, req[p].served)])]
    /\ UNCHANGED <<now, fs, started, reaper, reaped, fetched, pj, config, paste_config, config_receiver, config_file>>

-----------------------------------------------------------------------------
(* middleware.rs: the content length limiter, and the part's field name *)

\* The limit one byte too high.
max_bytes_off_by_one == BaseConfig.max_content_length + 1

\* main.rs, lines 163-165: the limiter is built with server.max_content_length of
\* the configuration the server started with.
max_bytes == BaseConfig.max_content_length

\* ContentLengthLimiterMiddleware::call on a POST: a Content-Length header
\* (None when absent or unparsable) above max_bytes is answered 413 and the
\* handler is not called; otherwise the request goes to the handler as it is.
LimiterCall(p, content_length, field) ==
    /\ req[p].pc = "idle" /\ req[p].op = "none"
    /\ LET q == [req[p] EXCEPT !.content_length = content_length, !.form_field = field]
       IN IF \E bytes \in content_length : bytes > max_bytes
          THEN /\ req' = [req EXCEPT ![p] =
                            Refused([q EXCEPT !.op = "upload"],
                                    [status |-> 413, body |-> "upload limit exceeded"])]
               /\ started' = started + 1
          ELSE /\ req' = [req EXCEPT ![p] = [q EXCEPT !.op = "post"]]
               /\ started' = started
    /\ UNCHANGED <<now, fs, content, reaper, reaped, fetched, pj, config, paste_config, config_receiver, config_file>>

\* try_from taking a part of any other field name for a file.
try_from_default_file(field) ==
    CASE field = "remote"      -> Some("RemoteFile")
      [] field = "oneshot"     -> Some("Oneshot")
      [] field = "oneshot_url" -> Some("OneshotUrl")
      [] field = "url"         -> Some("Url")
      [] OTHER                 -> Some("File")

\* PasteType::try_from(&ContentDisposition): the kind by the part's field name
try_from(field) ==
    CASE field = "file"        -> Some("File")
      [] field = "remote"      -> Some("RemoteFile")
      [] field = "oneshot"     -> Some("Oneshot")
      [] field = "oneshot_url" -> Some("OneshotUrl")
      [] field = "url"         -> Some("Url")
      [] OTHER                 -> None

\* upload, lines 236 and 317-320, on a request the limiter let through: a part
\* whose field name is no kind is answered 400 once the grants are checked
\* (line 193); any other part is handled as its kind.
UploadPart(p, file, data, dur, header) ==
    /\ req[p].pc = "idle" /\ req[p].op = "post"
    /\ IF try_from(req[p].form_field) = None
       THEN /\ \E grant \in {Protect(config, "POST", None, "Auth")},
                  q \in {[req[p] EXCEPT !.op = "upload", !.file = file, !.data = data]} :
                  req' = [req EXCEPT ![p] = IF grant.status # 0 THEN Refused(q, grant)
                                            ELSE Done(q, 400)]
            /\ started' = started + 1
            /\ UNCHANGED <<now, fs, content, reaper, reaped, fetched, pj, config, paste_config, config_receiver, config_file>>
       ELSE \E type_ \in try_from(req[p].form_field) :
               UploadStart(p, None, type_, file, data, dur, header)

-----------------------------------------------------------------------------
(* main.rs: the cleanup thread, and the clock *)

\* get_expired_files lists the directories in the order File, Oneshot, Url,
\* OneshotUrl, and glob lists each directory alphabetically.
DirRank(loc) ==
    CASE Front(loc) = upload_path.comps \o get_dir("Oneshot")    -> 2
      [] Front(loc) = upload_path.comps \o get_dir("Url")        -> 3
      [] Front(loc) = upload_path.comps \o get_dir("OneshotUrl") -> 4
      [] OTHER                                                   -> 1

RemovedBefore(a, b) ==
    \/ DirRank(a) < DirRank(b)
    \/ DirRank(a) = DirRank(b) /\ LexLess(NameCode(Last(a)), NameCode(Last(b)))

\* main.rs, lines 120-134, with cleanup enabled: after the sleep try_recv takes
\* one configuration from the channel, if one is waiting, and its [paste] table
\* replaces the thread's copy.
TryRecv ==
    IF config_receiver = <<>> THEN UNCHANGED <<paste_config, config_receiver>>
    ELSE /\ paste_config' =
                [delete_expired_files |-> Head(config_receiver).delete_expired_files]
         /\ config_receiver' = Tail(config_receiver)

\* main.rs, lines 105-112: when cleanup is enabled, util::get_expired_files is
\* called; with nothing to remove the iteration ends (lines 118-134).
ReaperScan ==
    /\ reaper.pc = "sleep"
    /\ \E cleanup_config \in paste_config.delete_expired_files : cleanup_config.enabled
    /\ \E files \in {get_expired_files(fs, now)} :
          IF files = {} THEN reaper' = reaper /\ TryRecv
          ELSE /\ reaper' = [pc |-> "remove", todo |-> {e.path : e \in files}]
               /\ UNCHANGED <<paste_config, config_receiver>>
    /\ UNCHANGED <<now, fs, content, req, started, reaped, fetched, pj, config, config_file>>

\* main.rs, lines 113-116: fs::remove_file on the next expired file; after the
\* last one the iteration ends (lines 118-134).
ReaperRemove ==
    /\ reaper.pc = "remove"
    /\ \E path \in reaper.todo :
         /\ \A o \in reaper.todo : o = path \/ RemovedBefore(path, o)
         /\ fs' = {e \in fs : e.path # path}
         /\ reaped' = reaped \cup {e \in fs : e.path = path}
         /\ IF reaper.todo = {path}
            THEN reaper' = [pc |-> "sleep", todo |-> {}] /\ TryRecv
            ELSE /\ reaper' = [reaper EXCEPT !.todo = reaper.todo \ {path}]
                 /\ UNCHANGED <<paste_config, config_receiver>>
    /\ UNCHANGED <<now, content, req, started, fetched, pj, config, config_file>>

\* main.rs, lines 120-134, with cleanup disabled or not configured: the thread
\* blocks in recv until a configuration arrives, and installs its [paste] table.
ReaperRecv ==
    /\ reaper.pc = "sleep"
    /\ ~\E cleanup_config \in paste_config.delete_expired_files : cleanup_config.enabled
    /\ config_receiver # <<>>
    /\ paste_config' =
          [delete_expired_files |-> Head(config_receiver).delete_expired_files]
    /\ config_receiver' = Tail(config_receiver)
    /\ UNCHANGED <<now, fs, content, req, started, reaper, reaped, fetched, pj, config, config_file>>

\* Config::parse reading whatever the file holds as a configuration.
parse_lenient(file) == Some(file.config)

\* Config::parse (main.rs, line 78): Err for a file that is not valid TOML
\* of the configuration's form, else the configuration it holds.
parse(file) == IF file.valid THEN Some(file.config) ELSE None

\* main.rs, lines 80-87 (config_watcher): the configuration file was rewritten
\* and parses as new_config; under the write lock the new configuration
\* replaces the handlers' and is sent to the cleanup thread.
ConfigReload(new_config) ==
    /\ config_file' = [valid |-> TRUE, config |-> new_config]
    /\ config' = new_config
    /\ config_receiver' = Append(config_receiver, new_config)
    /\ UNCHANGED <<now, fs, content, req, started, reaper, reaped, fetched, pj, paste_config>>

\* main.rs, lines 74-96 (config_watcher): the configuration file was rewritten
\* to file; when Config::parse fails the error is logged and nothing else
\* happens (lines 92-94).
ConfigWatcher(file) ==
    IF parse(file) = None
    THEN /\ config_file' = file
         /\ UNCHANGED <<now, fs, content, req, started, reaper, reaped, fetched, pj,
                        config, paste_config, config_receiver>>
    ELSE \E new_config \in parse(file) : ConfigReload(new_config)

\* One millisecond passes.
Tick ==
    /\ now < Epoch + MaxTick
    /\ now' = now + 1
    /\ UNCHANGED <<fs, content, req, started, reaper, reaped, fetched, pj, config, paste_config, config_receiver, config_file>>

-----------------------------------------------------------------------------
(* One call of util::safe_path_join *)

NoCall == [pc |-> "none", base |-> NoPath, part |-> NoPath, res |-> Err]

JoinCall ==
    /\ pj.pc = "call"
    /\ pj' = [pj EXCEPT !.pc = "ret", !.res = safe_path_join(pj.base, pj.part)]
    /\ UNCHANGED <<now, fs, content, req, started, reaper, reaped, fetched, config, paste_config, config_receiver, config_file>>

-----------------------------------------------------------------------------
(* Inputs *)

AName == <<W("a"), W("txt")>>              \* "a.txt"
ANameDigit == <<W("a"), W("txt"), N(7)>>   \* "a.txt.7": an extension of digits
AFile == P(FALSE, <<AName>>)
UrlFile == P(FALSE, get_dir("Url"))             \* GET /url

GoodUrl == "https://example.org"

\* Authorization: d, the delete token of BaseConfig
DeleteToken == Some(<<"d">>)

\* Sequences over S of length at most n
RECURSIVE SeqsUpTo(_, _)
SeqsUpTo(S, n) ==
    IF n = 0 THEN {<<>>}
    ELSE LET shorter == SeqsUpTo(S, n - 1)
         IN shorter \cup {Append(q, x) : q \in shorter, x \in S}

JoinBases ==
    {P(TRUE, <<>>), P(TRUE, <<Nm("foo")>>), P(TRUE, <<Nm("foo"), Nm("bar")>>),
     P(TRUE, <<Nm("foo"), Nm("bar"), DotDot>>),
     P(FALSE, <<>>), P(FALSE, <<Dot>>), P(FALSE, <<Nm("foo")>>),
     P(FALSE, <<DotDot>>), P(FALSE, <<DotDot, Nm("foo")>>)}

JoinParts ==
    {P(a, cs) : a \in BOOLEAN, cs \in SeqsUpTo({Nm("bar"), Nm("foo"), Dot, DotDot}, MaxPartLen)}

-----------------------------------------------------------------------------
(* Specifications *)

Accept(p, limit) == p = started + 1 /\ Cardinality(InFlight) < limit

\* main.rs, lines 52-53: the cleanup thread starts with the [paste] table of
\* the parsed configuration and an empty channel.
InitCleanup ==
    /\ paste_config = [delete_expired_files |-> config.delete_expired_files]
    /\ config_receiver = <<>>
    /\ config_file = [valid |-> TRUE, config |-> config]

InitIdle ==
    /\ now = Epoch
    /\ fs = {}
    /\ content = [i \in Inodes |-> NoContent]
    /\ req = [p \in Procs |-> NoReq]
    /\ started = 0
    /\ reaper = [pc |-> "sleep", todo |-> {}]
    /\ reaped = {}
    /\ fetched = {}

\* The server after start-up: the upload directories exist and are empty.
Init == InitIdle /\ pj = NoCall /\ config = BaseConfig /\ InitCleanup

\* Concurrent requests for one file name, the cleanup thread and the clock.
Next ==
    \/ \E p \in Procs : Accept(p, MaxInFlight) /\ GetStart(p, AFile)
    \/ \E p \in Procs : ServeCheck(p)
    \/ \E p \in Procs : ServeOpen(p)
    \/ \E p \in Procs : ServeRename(p)
    \/ \E p \in Procs : Accept(p, MaxInFlight) /\ DeleteStart(p, DeleteToken, AFile)
    \/ \E p \in Procs : DeleteRemove(p)
    \/ \E p \in Procs : Accept(p, MaxInFlight) /\
          \E type_ \in {"File", "Oneshot"}, dur \in {0, 1} :
             UploadStart(p, None, type_, AFile, "b", dur, NoHeader)
    \/ \E p \in Procs : UploadCreate(p)
    \/ \E p \in Procs : UploadWrite(p)
    \/ ReaperScan
    \/ ReaperRemove
    \/ Tick

Spec == Init /\ [][Next]_vars

\* safe_path_join on every base and part of the input sets
InitJoin ==
    /\ InitIdle
    /\ config = BaseConfig
    /\ InitCleanup
    /\ \E b \in JoinBases, q \in JoinParts :
          pj = [pc |-> "call", base |-> b, part |-> q, res |-> Err]

NextJoin == JoinCall

SpecJoin == InitJoin /\ [][NextJoin]_vars

-----------------------------------------------------------------------------
(* K concurrent GETs of one stored one-shot artifact *)

\* The record of an upload that has been answered 200.
StoredUpload(by, type_, name, data, expiry_date) ==
    [NoReq EXCEPT !.op = "upload", !.pc = "done", !.kind = type_,
                  !.file = P(FALSE, <<name>>), !.data = data, !.expiry = expiry_date,
                  !.status = 200, !.served = name, !.ino = by,
                  !.wrote = upload_path.comps \o get_dir(type_)
                            \o <<IF expiry_date = 0 THEN name ELSE name \o <<N(expiry_date)>>>>,
                  !.parts = <<[type_ |-> type_, file |-> P(FALSE, <<name>>), data |-> data]>>,
                  !.urls = <<[name |-> name,
                              wrote |-> upload_path.comps \o get_dir(type_)
                                        \o <<IF expiry_date = 0 THEN name
                                             ELSE name \o <<N(expiry_date)>>>>]>>]

\* The name under which an artifact of a kind is stored here: "a.txt" for a
\* file, the directory name for a URL (store_url without random_url).
RaceName(type_) == IF type_ = "Oneshot" THEN AName ELSE get_dir(type_)[1]

\* Request 0 is the upload of the one-shot artifact.  Request -1, when there is
\* one, is an upload of the same name that serve finds first (a file in the
\* upload root, or a one-shot file named like the URL).  An older, consumed
\* one-shot of the name may have left its tombstone.
InitRace ==
    /\ now = Epoch
    /\ started = 0
    /\ reaper = [pc |-> "sleep", todo |-> {}]
    /\ reaped = {}
    /\ fetched = {}
    /\ pj = NoCall
    /\ config = BaseConfig
    /\ InitCleanup
    /\ \E type_ \in {"Oneshot", "OneshotUrl"}, expiry_date \in {0, Epoch + 1},
          shadow \in BOOLEAN, tomb \in BOOLEAN :
         LET name == RaceName(type_)
             up == StoredUpload(0, type_, name, IF type_ = "Oneshot" THEN "b" ELSE "https://example.org/",
                          expiry_date)
             stype == IF type_ = "Oneshot" THEN "File" ELSE "Oneshot"
             sh == StoredUpload(1, stype, name, "s", 0)
             tombpath == upload_path.comps \o get_dir(type_) \o <<name \o <<N(MinTimestamp)>>>>
         IN /\ req = [p \in -1..RaceGets |->
                        IF p = 0 THEN up ELSE IF p = -1 /\ shadow THEN sh ELSE NoReq]
            /\ fs = {[path |-> up.wrote, ino |-> 0]}
                    \cup (IF shadow THEN {[path |-> sh.wrote, ino |-> 1]} ELSE {})
                    \cup (IF tomb THEN {[path |-> tombpath, ino |-> 2]} ELSE {})
            /\ content = [i \in Inodes |->
                            IF i = 0 THEN [data |-> up.data, by |-> 0]
                            ELSE IF i = 1 /\ shadow THEN [data |-> "s", by |-> -1]
                            ELSE IF i = 2 /\ tomb THEN [data |-> "old", by |-> -2]
                            ELSE NoContent]

NextRace ==
    \/ \E p \in 1..RaceGets : Accept(p, RaceGets) /\
          GetStart(p, P(FALSE, <<req[0].served>>))
    \/ \E p \in 1..RaceGets : ServeCheck(p)
    \/ \E p \in 1..RaceGets : ServeOpen(p)
    \/ \E p \in 1..RaceGets : ServeRename(p)
    \/ Tick

SpecRace == InitRace /\ [][NextRace]_vars

-----------------------------------------------------------------------------
(* Requests answered one after the other: names, expiry and the reaper *)

\* The filename header "../x"
EscapingHeader == SomeHeader(P(FALSE, <<DotDot, Nm("x")>>))

StoreUploads ==
    {[type_ |-> t, file |-> P(FALSE, <<f>>), data |-> "b", dur |-> d, header |-> NoHeader] :
        t \in {"File", "Oneshot"}, f \in {AName, ANameDigit}, d \in {0, 1}}
    \cup {[type_ |-> "File", file |-> AFile, data |-> "b", dur |-> 0, header |-> EscapingHeader]}
    \cup {[type_ |-> "Url", file |-> NoPath, data |-> GoodUrl, dur |-> d, header |-> NoHeader] :
            d \in {0, 1}}

NextStore ==
    \/ \E p \in 1..MaxStoreReqs : Accept(p, 1) /\
          \E file \in {AFile, UrlFile} : GetStart(p, file)
    \/ \E p \in 1..MaxStoreReqs : ServeCheck(p)
    \/ \E p \in 1..MaxStoreReqs : ServeOpen(p)
    \/ \E p \in 1..MaxStoreReqs : ServeRename(p)
    \/ \E p \in 1..MaxStoreReqs : Accept(p, 1) /\ DeleteStart(p, DeleteToken, AFile)
    \/ \E p \in 1..MaxStoreReqs : DeleteRemove(p)
    \/ \E p \in 1..MaxStoreReqs : Accept(p, 1) /\
          \E u \in StoreUploads :
             UploadStart(p, None, u.type_, u.file, u.data, u.dur, u.header)
    \/ \E p \in 1..MaxStoreReqs : UploadCreate(p)
    \/ \E p \in 1..MaxStoreReqs : UploadWrite(p)
    \/ ReaperScan
    \/ ReaperRemove
    \/ Tick

SpecStore == Init /\ [][NextStore]_vars

-----------------------------------------------------------------------------
(* Requests answered one after the other: URLs and remote files *)

UrlBodies == {GoodUrl, "ftp://example.org/a.txt", "testurl.com", NotUtf8}

\* Names with a space: "a b.txt" as a file name and as the filename header
SpaceName == <<W("a b"), W("txt")>>
SpaceHeader == SomeHeader(P(FALSE, <<SpaceName>>))

\* The path of a GET for a served name: web::Path<String> percent-decodes it.
RequestPath(served) ==
    LET Decoded(seg) == IF seg.w = "a%20b" THEN [seg EXCEPT !.w = "a b"] ELSE seg
    IN P(FALSE, <<[i \in 1..Len(served) |-> Decoded(served[i])]>>)

RemoteUrls ==
    {"http://example.org/a.txt", "ftp://example.org/a.txt", "http://localhost/a.txt",
     "http://169.254.169.254/a.txt", "http://intranet.example/a.txt", "testurl.com"}

NextUrl ==
    \/ \E p \in 1..MaxUrlReqs : Accept(p, 1) /\
          \E type_ \in {"Url", "OneshotUrl"}, data \in UrlBodies, dur \in {0, 1} :
             UploadStart(p, None, type_, NoPath, data, dur, NoHeader)
    \/ \E p \in 1..MaxUrlReqs : Accept(p, 1) /\
          \E data \in RemoteUrls :
             UploadStart(p, None, "RemoteFile", NoPath, data, 0, NoHeader)
    \/ \E p \in 1..MaxUrlReqs, body \in {"", "r"} : RemoteFetch(p, body)
    \/ \E p \in 1..MaxUrlReqs : UploadCreate(p)
    \/ \E p \in 1..MaxUrlReqs : UploadWrite(p)

SpecUrl == Init /\ [][NextUrl]_vars

-----------------------------------------------------------------------------
(* Requests answered one after the other with paste.duplicate_files = false *)

DedupConfigs ==
    {[BaseConfig EXCEPT !.duplicate_files = Some(FALSE), !.handle_spaces = h] :
        h \in {None, Some("Replace"), Some("Encode")}}

DedupUploads ==
    {[type_ |-> "File", file |-> P(FALSE, <<f>>), data |-> d, dur |-> 0, header |-> h] :
        f \in {AName, SpaceName}, d \in {"b", GoodUrl}, h \in {NoHeader, SpaceHeader}}
    \cup {[type_ |-> t, file |-> AFile, data |-> "b", dur |-> 1, header |-> NoHeader] :
            t \in {"File", "Oneshot"}}
    \cup {[type_ |-> "Oneshot", file |-> AFile, data |-> "b", dur |-> 0, header |-> NoHeader]}
    \cup {[type_ |-> t, file |-> NoPath, data |-> GoodUrl, dur |-> 0, header |-> NoHeader] :
            t \in {"Url", "OneshotUrl"}}
    \cup {[type_ |-> "RemoteFile", file |-> NoPath, data |-> "http://example.org/a.txt",
           dur |-> 0, header |-> NoHeader]}

InitDedup == InitIdle /\ pj = NoCall /\ config \in DedupConfigs /\ InitCleanup

NextDedup ==
    \/ \E p \in 1..MaxDedupReqs : Accept(p, 1) /\ GetStart(p, AFile)
    \/ \E p \in 1..MaxDedupReqs : ServeCheck(p)
    \/ \E p \in 1..MaxDedupReqs : ServeOpen(p)
    \/ \E p \in 1..MaxDedupReqs : ServeRename(p)
    \/ \E p \in 1..MaxDedupReqs : Accept(p, 1) /\
          \E u \in DedupUploads :
             UploadStart(p, None, u.type_, u.file, u.data, u.dur, u.header)
    \/ \E p \in 1..MaxDedupReqs : RemoteFetch(p, "b")
    \/ \E p \in 1..MaxDedupReqs : UploadCreate(p)
    \/ \E p \in 1..MaxDedupReqs : UploadWrite(p)
    \/ Tick

SpecDedup == InitDedup /\ [][NextDedup]_vars

-----------------------------------------------------------------------------
(* File uploads under every server.handle_spaces policy, and GETs of the *)
(* names they were answered with                                         *)

\* "a.1000000005": a file name whose extension is ten digits
TimestampName == <<W("a"), N(MinTimestamp + 5)>>

InitNames ==
    /\ InitIdle /\ pj = NoCall
    /\ config \in {[BaseConfig EXCEPT !.handle_spaces = h] :
                     h \in {None, Some("Replace"), Some("Encode")}}
    /\ InitCleanup

NextNames ==
    \/ \E p \in 1..MaxNameReqs : Accept(p, 1) /\
          \E f \in {AName, SpaceName, TimestampName}, dur \in {0, 2},
             header \in {NoHeader, SpaceHeader, SomeHeader(P(FALSE, <<TimestampName>>))} :
             UploadStart(p, None, "File", P(FALSE, <<f>>), "b", dur, header)
    \/ \E p \in 1..MaxNameReqs : UploadCreate(p)
    \/ \E p \in 1..MaxNameReqs : UploadWrite(p)
    \/ \E p \in 1..MaxNameReqs : Accept(p, 1) /\
          \E u \in 1..MaxNameReqs :
             /\ req[u].op = "upload" /\ req[u].status = 200
             /\ GetStart(p, RequestPath(req[u].served))
    \/ \E p \in 1..MaxNameReqs : ServeCheck(p)
    \/ \E p \in 1..MaxNameReqs : ServeOpen(p)
    \/ Tick

SpecNames == InitNames /\ [][NextNames]_vars

-----------------------------------------------------------------------------
(* The cleanup thread at work: a stored artifact of any kind, uploads, GETs *)
(* and the clock, with the thread scheduled again and again                 *)

\* The filename header ".1000000000"
StampHeader == SomeHeader(P(FALSE, <<<<W(""), N(MinTimestamp)>>>>))

\* Request 0, when there is one, is an upload that stored an artifact of some
\* kind, without expiry or with one that is now reached or still to come.
InitReaper ==
    /\ now = Epoch
    /\ started = 0
    /\ reaper = [pc |-> "sleep", todo |-> {}]
    /\ reaped = {}
    /\ fetched = {}
    /\ pj = NoCall
    /\ config = BaseConfig
    /\ InitCleanup
    /\ \E stored \in BOOLEAN, type_ \in {"File", "Oneshot", "Url", "OneshotUrl"},
          expiry_date \in {0, Epoch, Epoch + MaxTick + 1} :
         LET up == StoredUpload(0, type_,
                                IF type_ \in {"File", "Oneshot"} THEN AName ELSE RaceName(type_),
                                IF type_ \in {"File", "Oneshot"} THEN "b" ELSE "https://example.org/",
                                expiry_date)
         IN /\ stored \/ (type_ = "File" /\ expiry_date = 0)
            /\ req = [p \in 0..MaxReaperReqs |-> IF p = 0 /\ stored THEN up ELSE NoReq]
            /\ fs = IF stored THEN {[path |-> up.wrote, ino |-> 0]} ELSE {}
            /\ content = [i \in Inodes |->
                            IF i = 0 /\ stored THEN [data |-> up.data, by |-> 0]
                            ELSE NoContent]

NextReaper ==
    \/ \E p \in 1..MaxReaperReqs : Accept(p, 1) /\
          \E file \in {AFile} \cup {P(FALSE, <<get_dir(t)[1]>>) : t \in {"Url", "OneshotUrl"}} :
             GetStart(p, file)
    \/ \E p \in 1..MaxReaperReqs : ServeCheck(p)
    \/ \E p \in 1..MaxReaperReqs : ServeOpen(p)
    \/ \E p \in 1..MaxReaperReqs : ServeRename(p)
    \/ \E p \in 1..MaxReaperReqs : Accept(p, 1) /\
          \E type_ \in {"File", "Oneshot"}, dur \in {0, 1}, header \in {NoHeader, StampHeader} :
             UploadStart(p, None, type_, AFile, "b", dur, header)
    \/ \E p \in 1..MaxReaperReqs : UploadCreate(p)
    \/ \E p \in 1..MaxReaperReqs : UploadWrite(p)
    \/ ReaperScan
    \/ ReaperRemove
    \/ Tick

\* The cleanup thread loops for as long as the process lives (main.rs, line
\* 103): a scan, and each removal of a scan, is eventually made.  A handler
\* that has started runs to its end, and the clock does not stop.
SpecReaper ==
    /\ InitReaper /\ [][NextReaper]_vars
    /\ WF_vars(ReaperScan) /\ WF_vars(ReaperRemove)
    /\ WF_vars(\E p \in 1..MaxReaperReqs :
                  \/ ServeCheck(p) \/ ServeOpen(p) \/ ServeRename(p)
                  \/ UploadCreate(p) \/ UploadWrite(p))
    /\ WF_vars(Tick)

-----------------------------------------------------------------------------
(* Requests answered one after the other under every token configuration *)

\* [server] auth_tokens, auth_token and AUTH_TOKEN: unset, set, blank, empty;
\* [server] delete_tokens and DELETE_TOKEN: unset, set, blank, shared with auth;
\* expose_version and expose_list: unset, true.
AuthConfigs ==
    LET AuthSettings ==
          {[auth_tokens |-> None, auth_token |-> None, env_auth_token |-> None],
           [auth_tokens |-> Some({"a"}), auth_token |-> None, env_auth_token |-> None],
           [auth_tokens |-> Some({" "}), auth_token |-> None, env_auth_token |-> None],
           [auth_tokens |-> Some({}), auth_token |-> Some("old"), env_auth_token |-> None],
           [auth_tokens |-> None, auth_token |-> None, env_auth_token |-> Some("env")]}
        DeleteSettings ==
          {[delete_tokens |-> None, env_delete_token |-> None],
           [delete_tokens |-> Some({"d"}), env_delete_token |-> None],
           [delete_tokens |-> Some({""}), env_delete_token |-> None],
           [delete_tokens |-> Some({"a", "d"}), env_delete_token |-> None],
           [delete_tokens |-> None, env_delete_token |-> Some("envd")]}
    IN
    {[BaseConfig EXCEPT !.auth_tokens = a.auth_tokens, !.auth_token = a.auth_token,
                        !.env_auth_token = a.env_auth_token,
                        !.delete_tokens = d.delete_tokens,
                        !.env_delete_token = d.env_delete_token,
                        !.expose_version = e, !.expose_list = e] :
        a \in AuthSettings, d \in DeleteSettings, e \in {None, Some(TRUE)}}

\* Authorization headers: none, a bare token, a scheme and a token
Authorizations ==
    {None, Some(<<"a">>), Some(<<"Bearer", "d">>), Some(<<"old">>), Some(<<"env">>),
     Some(<<"envd">>), Some(<<"x">>)}

\* Request 0 is the upload that stored "a.txt".
InitAuth ==
    /\ now = Epoch
    /\ started = 0
    /\ reaper = [pc |-> "sleep", todo |-> {}]
    /\ reaped = {}
    /\ fetched = {}
    /\ pj = NoCall
    /\ config \in AuthConfigs
    /\ InitCleanup
    /\ \E up \in {StoredUpload(0, "File", AName, "b", 0)} :
         /\ req = [p \in 0..MaxAuthReqs |-> IF p = 0 THEN up ELSE NoReq]
         /\ fs = {[path |-> up.wrote, ino |-> 0]}
         /\ content = [i \in Inodes |->
                         IF i = 0 THEN [data |-> "b", by |-> 0] ELSE NoContent]

NextAuth ==
    \/ \E p \in 1..MaxAuthReqs, authorization \in Authorizations :
          Accept(p, 1) /\ DeleteStart(p, authorization, AFile)
    \/ \E p \in 1..MaxAuthReqs : DeleteRemove(p)
    \/ \E p \in 1..MaxAuthReqs, authorization \in Authorizations :
          Accept(p, 1) /\ UploadStart(p, authorization, "File", AFile, "c", 0, NoHeader)
    \/ \E p \in 1..MaxAuthReqs : UploadCreate(p)
    \/ \E p \in 1..MaxAuthReqs : UploadWrite(p)
    \/ \E p \in 1..MaxAuthReqs, authorization \in Authorizations :
          Accept(p, 1) /\ VersionReq(p, authorization)
    \/ \E p \in 1..MaxAuthReqs, authorization \in Authorizations :
          Accept(p, 1) /\ ListReq(p, authorization)

SpecAuth == InitAuth /\ [][NextAuth]_vars

-----------------------------------------------------------------------------
(* The configuration file rewritten while uploads are handled and the cleanup *)
(* thread loops                                                              *)

\* The configurations the file is rewritten to: paste.delete_expired_files
\* enabled or not, server.handle_spaces unset or "replace".
ReloadConfigs ==
    {[BaseConfig EXCEPT !.delete_expired_files = Some([enabled |-> e]),
                        !.handle_spaces = h] :
        e \in BOOLEAN, h \in {None, Some("Replace")}}

NextReload ==
    \/ \E new_config \in ReloadConfigs \ {config} :
          Len(config_receiver) < MaxReloads /\ ConfigReload(new_config)
    \/ \E p \in 1..MaxReaperReqs : Accept(p, 1) /\
          \E dur \in {0, 1} :
             UploadStart(p, None, "File", P(FALSE, <<SpaceName>>), "b", dur, NoHeader)
    \/ \E p \in 1..MaxReaperReqs : UploadCreate(p)
    \/ \E p \in 1..MaxReaperReqs : UploadWrite(p)
    \/ ReaperScan
    \/ ReaperRemove
    \/ ReaperRecv
    \/ Tick

\* The start is SpecReaper's: an artifact may be stored, expired or not.
SpecReload == InitReaper /\ [][NextReload]_vars

-----------------------------------------------------------------------------
(* Requests answered one after the other: artifacts of every kind, and GETs *)
(* of their names                                                          *)

\* File and one-shot uploads named "a.txt", or "url" by the filename header,
\* URL uploads of both kinds, without expiry or expiring after a millisecond,
\* and the upload of the remote file a.txt.
ServeUploads ==
    {[type_ |-> t, file |-> AFile, data |-> "b", dur |-> d, header |-> h] :
        t \in {"File", "Oneshot"}, d \in {0, 1},
        h \in {NoHeader, SomeHeader(P(FALSE, <<Nm("url")>>))}}
    \cup {[type_ |-> t, file |-> NoPath, data |-> GoodUrl, dur |-> d, header |-> NoHeader] :
            t \in {"Url", "OneshotUrl"}, d \in {0, 1}}
    \cup {[type_ |-> "RemoteFile", file |-> NoPath, data |-> "http://example.org/a.txt",
           dur |-> 0, header |-> NoHeader]}

NextServe ==
    \/ \E p \in 1..MaxServeReqs : Accept(p, 1) /\
          \E file \in {AFile, UrlFile, P(FALSE, get_dir("OneshotUrl"))} : GetStart(p, file)
    \/ \E p \in 1..MaxServeReqs : ServeCheck(p)
    \/ \E p \in 1..MaxServeReqs : ServeOpen(p)
    \/ \E p \in 1..MaxServeReqs : ServeRename(p)
    \/ \E p \in 1..MaxServeReqs : Accept(p, 1) /\
          \E u \in ServeUploads :
             UploadStart(p, None, u.type_, u.file, u.data, u.dur, u.header)
    \/ \E p \in 1..MaxServeReqs : RemoteFetch(p, "r")
    \/ \E p \in 1..MaxServeReqs : UploadCreate(p)
    \/ \E p \in 1..MaxServeReqs : UploadWrite(p)
    \/ Tick

SpecServe == Init /\ [][NextServe]_vars

-----------------------------------------------------------------------------
(* Uploads as they reach the server: the Content-Length header, the field   *)
(* name and the bytes of the part, with paste.mime_blacklist set on the way *)

\* The parts sent: a PDF or nothing as a file, a URL or nothing as a URL, the
\* URL of a remote file or nothing, and a part under a field name of no kind.
LimitParts ==
    {[field |-> f, file |-> AFile, data |-> d] :
        f \in {"file", "oneshot"}, d \in {"", "%PDF"}}
    \cup {[field |-> f, file |-> NoPath, data |-> d] :
            f \in {"url", "oneshot_url"}, d \in {"", GoodUrl}}
    \cup {[field |-> "remote", file |-> NoPath, data |-> d] :
            d \in {"", "http://example.org/a.txt"}}
    \cup {[field |-> "text", file |-> AFile, data |-> "b"]}

InitLimit ==
    /\ InitIdle /\ pj = NoCall
    /\ config \in {[BaseConfig EXCEPT !.duplicate_files = d] : d \in {None, Some(FALSE)}}
    /\ InitCleanup

NextLimit ==
    \/ \E p \in 1..MaxLimitReqs : Accept(p, 1) /\
          \E content_length \in {None, Some(BaseConfig.max_content_length),
                                  Some(BaseConfig.max_content_length + 1)},
             part \in LimitParts :
             LimiterCall(p, content_length, part.field)
    \/ \E p \in 1..MaxLimitReqs : Accept(p, 1) /\
          \E part \in LimitParts :
             /\ part.field = req[p].form_field
             /\ UploadPart(p, part.file, part.data, 0, NoHeader)
    \/ \E p \in 1..MaxLimitReqs, body \in {"%PDF", "12345"} : RemoteFetch(p, body)
    \/ \E p \in 1..MaxLimitReqs : UploadCreate(p)
    \/ \E p \in 1..MaxLimitReqs : UploadWrite(p)
    \/ /\ config.mime_blacklist = {} /\ Len(config_receiver) < MaxReloads
       /\ ConfigReload([config EXCEPT !.mime_blacklist = {"application/pdf"}])

SpecLimit == InitLimit /\ [][NextLimit]_vars

-----------------------------------------------------------------------------
(* GET /list between uploads to the upload root, while the clock runs *)

MaxListReqs == 3   \* requests of a behaviour of SpecList

\* Request 0, when there is one, stored "a.txt" with an expiry that is now
\* reached or still to come; expose_list is unset, false or true.
InitList ==
    /\ now = Epoch
    /\ started = 0
    /\ reaper = [pc |-> "sleep", todo |-> {}]
    /\ reaped = {}
    /\ fetched = {}
    /\ pj = NoCall
    /\ config \in {[BaseConfig EXCEPT !.expose_list = e] :
                     e \in {None, Some(FALSE), Some(TRUE)}}
    /\ InitCleanup
    /\ \E stored \in BOOLEAN, expiry_date \in {Epoch, Epoch + MaxTick + 1} :
         \E up \in {StoredUpload(0, "File", AName, "b", expiry_date)} :
            /\ stored \/ expiry_date = Epoch
            /\ req = [p \in 0..MaxListReqs |-> IF p = 0 /\ stored THEN up ELSE NoReq]
            /\ fs = IF stored THEN {[path |-> up.wrote, ino |-> 0]} ELSE {}
            /\ content = [i \in Inodes |->
                            IF i = 0 /\ stored THEN [data |-> up.data, by |-> 0]
                            ELSE NoContent]

NextList ==
    \/ \E p \in 1..MaxListReqs : Accept(p, 1) /\ ListReq(p, None)
    \/ \E p \in 1..MaxListReqs : Accept(p, 1) /\
          \E type_ \in {"File", "Oneshot"}, name \in {AName, ANameDigit}, dur \in {0, 1} :
             UploadStart(p, None, type_, P(FALSE, <<name>>), "b", dur, NoHeader)
    \/ \E p \in 1..MaxListReqs : UploadCreate(p)
    \/ \E p \in 1..MaxListReqs : UploadWrite(p)
    \/ Tick

SpecList == InitList /\ [][NextList]_vars

-----------------------------------------------------------------------------
(* Uploads of files under names with and without extension, with and without *)
(* paste.random_url                                                           *)

MaxExtReqs == 2   \* requests of a behaviour of SpecExt

\* The file names sent: "foo.tar.gz", ".foo.tar.gz", ".foo", "..foo",
\* "random", "-", "." and "".
ExtNames ==
    {<<W("foo"), W("tar"), W("gz")>>, <<W(""), W("foo"), W("tar"), W("gz")>>,
     <<W(""), W("foo")>>, <<W(""), W(""), W("foo")>>, Nm("random"), Nm("-"), Dot, Nm("")}

\* paste.random_url: unset, with suffix_mode true, false or unset, disabled.
InitExt ==
    /\ InitIdle /\ pj = NoCall
    /\ config \in {BaseConfig}
          \cup {[BaseConfig EXCEPT !.random_url =
                    Some([enabled |-> e, suffix_mode |-> m])] :
                  e \in {None, Some(TRUE), Some(FALSE)},
                  m \in {None, Some(TRUE), Some(FALSE)}}
    /\ InitCleanup

NextExt ==
    \/ \E p \in 1..MaxExtReqs : Accept(p, 1) /\
          \E name \in ExtNames, data \in {"xyz", "%PDF"} :
             UploadStart(p, None, "File", P(FALSE, <<name>>), data, 0, NoHeader)
    \/ \E p \in 1..MaxExtReqs : UploadCreate(p)
    \/ \E p \in 1..MaxExtReqs : UploadWrite(p)

SpecExt == InitExt /\ [][NextExt]_vars

-----------------------------------------------------------------------------
(* One call of util::glob_match_file on an upload directory with any of the *)
(* files uploads of "a.txt" and "a.txt.7" leave there                       *)

\* The names of the directory: "a.txt", "a.txt.7", "a.txt" with an expiry
\* reached, one and two ticks past the last instant of the model, and
\* "a.txt.7" with an expiry to come.
GlobSiblings ==
    {AName, ANameDigit, AName \o <<N(Epoch)>>, AName \o <<N(Epoch + MaxTick + 1)>>,
     AName \o <<N(Epoch + MaxTick + 2)>>, ANameDigit \o <<N(Epoch + MaxTick + 1)>>}

\* The paths passed: the name, and the name with a timestamp suffix.
GlobPaths ==
    {Join(upload_path, P(FALSE, <<name>>)) :
        name \in {AName, AName \o <<N(Epoch)>>, AName \o <<N(Epoch + MaxTick + 1)>>}}

InitGlob ==
    /\ now \in Epoch..(Epoch + MaxTick)
    /\ \E names \in SUBSET GlobSiblings :
          fs = {[path |-> upload_path.comps \o <<name>>, ino |-> 0] : name \in names}
    /\ content = [i \in Inodes |-> IF i = 0 THEN [data |-> "b", by |-> 0] ELSE NoContent]
    /\ req = [p \in Procs |-> NoReq]
    /\ started = 0
    /\ reaper = [pc |-> "sleep", todo |-> {}]
    /\ reaped = {}
    /\ fetched = {}
    /\ config = BaseConfig
    /\ InitCleanup
    /\ \E path \in GlobPaths : pj = [pc |-> "glob", base |-> NoPath, part |-> path, res |-> Err]

GlobCall ==
    /\ pj.pc = "glob"
    /\ pj' = [pj EXCEPT !.pc = "ret", !.res = Ok(glob_match_file(fs, now, pj.part))]
    /\ UNCHANGED <<now, fs, content, req, started, reaper, reaped, fetched, config, paste_config, config_receiver, config_file>>

NextGlob == GlobCall

SpecGlob == InitGlob /\ [][NextGlob]_vars

-----------------------------------------------------------------------------
(* One call of util::is_disallowed_ipv6 *)

\* The addresses passed, by their segments: the first is 0, 2001, 2002, fc00,
\* fd12, fe80, febf or ff02, the second 0 or db8, the sixth 0 or ffff, the
\* seventh 0, 7f00, a00, 808 or a9fe, the eighth 0, 1, 808 or a9fe, the
\* others 0.
Ipv6Addrs ==
    {<<s1, s2, 0, 0, 0, s6, s7, s8>> :
        s1 \in {0, 8193, 8194, 64512, 64786, 65152, 65215, 65282}, s2 \in {0, 3512},
        s6 \in {0, 65535}, s7 \in {0, 32512, 2560, 2056, 43518},
        s8 \in {0, 1, 2056, 43518}}

InitIp ==
    /\ InitIdle
    /\ config = BaseConfig
    /\ InitCleanup
    /\ \E v6 \in Ipv6Addrs : pj = [pc |-> "ip", v6 |-> v6, res |-> FALSE]

IpCall ==
    /\ pj.pc = "ip"
    /\ pj' = [pj EXCEPT !.pc = "ret", !.res = is_disallowed_ipv6(pj.v6)]
    /\ UNCHANGED <<now, fs, content, req, started, reaper, reaped, fetched, config, paste_config, config_receiver, config_file>>

NextIp == IpCall

SpecIp == InitIp /\ [][NextIp]_vars

-----------------------------------------------------------------------------
(* Uploads with and without an 'expire' header, with and without *)
(* paste.default_expiry                                           *)

MaxExpiryReqs == 2   \* requests of a behaviour of SpecExpiry

\* paste.default_expiry unset or 2 ms, paste.duplicate_files unset or false.
ExpiryConfigs ==
    {[BaseConfig EXCEPT !.default_expiry = e, !.duplicate_files = d] :
        e \in {None, Some(2)}, d \in {None, Some(FALSE)}}

\* Files "a.txt" and "x.txt" of the same bytes, a URL and a remote file, each
\* without 'expire' header and with 'expire: 1ms'.
ExpiryUploads ==
    {[type_ |-> t, file |-> P(FALSE, <<<<W(f), W("txt")>>>>), data |-> "b", dur |-> d] :
        t \in {"File", "Oneshot"}, f \in {"a", "x"}, d \in {0, 1}}
    \cup {[type_ |-> "Url", file |-> NoPath, data |-> GoodUrl, dur |-> d] : d \in {0, 1}}
    \cup {[type_ |-> "RemoteFile", file |-> NoPath, data |-> "http://example.org/a.txt",
           dur |-> d] : d \in {0, 1}}

InitExpiry == InitIdle /\ pj = NoCall /\ config \in ExpiryConfigs /\ InitCleanup

NextExpiry ==
    \/ \E p \in 1..MaxExpiryReqs : Accept(p, 1) /\
          \E u \in ExpiryUploads :
             UploadStart(p, None, u.type_, u.file, u.data, u.dur, NoHeader)
    \/ \E p \in 1..MaxExpiryReqs : RemoteFetch(p, "b")
    \/ \E p \in 1..MaxExpiryReqs : UploadCreate(p)
    \/ \E p \in 1..MaxExpiryReqs : UploadWrite(p)
    \/ Tick

SpecExpiry == InitExpiry /\ [][NextExpiry]_vars

-----------------------------------------------------------------------------
(* The configuration file rewritten, to files that parse and to files that *)
(* do not, while the cleanup thread loops                                   *)

\* What the file is rewritten to: a configuration of ReloadConfigs, or a text
\* that does not parse (config: what it would say if it did).
WatchFiles == {[valid |-> v, config |-> c] : v \in BOOLEAN, c \in ReloadConfigs}

NextWatch ==
    \/ \E file \in WatchFiles \ {config_file} :
          Len(config_receiver) < MaxReloads /\ ConfigWatcher(file)
    \/ ReaperScan
    \/ ReaperRemove
    \/ ReaperRecv
    \/ Tick

SpecWatch == InitReaper /\ [][NextWatch]_vars

-----------------------------------------------------------------------------
(* Uploads of payloads of several parts, and GETs of what they stored *)

MaxMultiReqs == 3   \* requests of a behaviour of SpecMulti

\* The parts sent: the files "a.txt" and "x.txt" and a URL.
MultiParts ==
    {[type_ |-> "File", file |-> AFile, data |-> "b"],
     [type_ |-> "File", file |-> P(FALSE, <<<<W("x"), W("txt")>>>>), data |-> "c"],
     [type_ |-> "Url", file |-> NoPath, data |-> GoodUrl]}

NextMulti ==
    \/ \E p \in 1..MaxMultiReqs : Accept(p, 1) /\
          \E parts \in SeqsUpTo(MultiParts, MaxParts) \ {<<>>} :
             UploadMultipart(p, None, parts, 0, NoHeader)
    \/ \E p \in 1..MaxMultiReqs : UploadNextPart(p)
    \/ \E p \in 1..MaxMultiReqs : UploadCreate(p)
    \/ \E p \in 1..MaxMultiReqs : UploadWrite(p)
    \/ \E p \in 1..MaxMultiReqs : Accept(p, 1) /\ GetStart(p, AFile)
    \/ \E p \in 1..MaxMultiReqs : ServeCheck(p)
    \/ \E p \in 1..MaxMultiReqs : ServeOpen(p)

SpecMulti == Init /\ [][NextMulti]_vars

-----------------------------------------------------------------------------
(* Claims on SpecRace *)

IsSuccess(r) == r.status = (IF r.ptype = "OneshotUrl" THEN 302 ELSE 200)

\* The GETs of the name of the artifact stored by request 0.
RaceGetsOf == {p \in 1..RaceGets : req[p].op = "get" /\ req[p].file = req[0].file}

\* All RaceGets GETs have been answered; no other upload of the name exists;
\* every GET entered serve while the artifact was unexpired.
RaceOver ==
    /\ \A p \in 1..RaceGets : req[p].pc = "done"
    /\ Cardinality(RaceGetsOf) >= 2
    /\ req[-1].op = "none"
    /\ \A p \in RaceGetsOf : req[0].expiry = 0 \/ req[p].t < req[0].expiry

\* C1: with K >= 2 concurrent GETs of the same name racing on one live Oneshot
\* or OneshotUrl artifact and nothing else running, exactly one GET returns
\* success (200 for Oneshot, 302 for OneshotUrl) and every other GET returns 404.
C1_ExactlyOneGetSucceeds ==
    RaceOver =>
        \E w \in RaceGetsOf :
            /\ req[w].ptype = req[0].kind
            /\ IsSuccess(req[w])
            /\ \A p \in RaceGetsOf \ {w} : req[p].status = 404

-----------------------------------------------------------------------------
(* Claims on Spec *)

\* A GET that was answered with the content of a one-shot artifact.
OneshotServed(p) ==
    /\ req[p].op = "get" /\ req[p].pc = "done"
    /\ req[p].ptype \in {"Oneshot", "OneshotUrl"}
    /\ IsSuccess(req[p])

\* C2: in every interleaving of GETs, uploads, DELETEs and reaper sweeps, the
\* bytes of one stored one-shot artifact are returned by at most one successful
\* GET, and the consume rename of a GET tombstones only the artifact whose
\* bytes that GET returns, never a newer one uploaded under the same name.
C2_OneshotServedAtMostOnce ==
    /\ \A p, q \in DOMAIN req :
          (p # q /\ OneshotServed(p) /\ OneshotServed(q))
             => req[p].body.by # req[q].body.by
    /\ \A p \in DOMAIN req :
          OneshotServed(p) => req[p].consumed = req[p].body.by

\* An upload that asked for no expiry and has been answered.
EternalUpload(p) ==
    /\ req[p].op = "upload" /\ req[p].pc = "done"
    /\ req[p].expiry = 0

\* C3: two uploads, sequential or concurrent, that produce the same final file
\* name in the same kind-directory, neither with an expiry, yield exactly one
\* 200 and one 409, and the bytes on disk under that name are the bytes of the
\* successful upload.  (The two uploads are the only requests so far.)
C3_SameNameOneConflict ==
    (/\ started = 2
     /\ EternalUpload(1) /\ EternalUpload(2)
     /\ req[1].kind = req[2].kind
     /\ req[1].file = req[2].file)
    => \E w \in {1, 2} :
          /\ req[w].status = 200
          /\ req[3 - w].status = 409
          /\ \E e \in fs : e.path = req[w].wrote /\ content[e.ino].by = w

\* C23: a GET that runs while an upload of the same name is written never
\* sees a partly written artifact: what it returns with 200 is the complete
\* bytes of an upload.
C23_NoPartialArtifact ==
    \A g \in DOMAIN req :
       (req[g].op = "get" /\ req[g].pc = "done" /\ req[g].status = 200)
          => \E u \in DOMAIN req :
                /\ req[u].op = "upload"
                /\ req[g].body.by = u
                /\ req[g].body.data = req[u].data

-----------------------------------------------------------------------------
(* Claims on SpecStore *)

KindDirs == {upload_path.comps \o get_dir(t) : t \in {"File", "Oneshot", "Url", "OneshotUrl"}}

\* The name a directory entry is served under: its name without the timestamp suffix.
ServedName(name) == IF HasTimestampSuffix(name) THEN Front(name) ELSE name

\* A file is live when it has no timestamp suffix or the suffix is greater than now.
Live(name) == ~HasTimestampSuffix(name) \/ Last(name).n > now

\* C4: after any sequence of store_file, store_url, store_remote, one-shot
\* consumption, DELETE and reaper steps, every kind-directory holds at most one
\* live file per served name.
C4_OneLiveFilePerName ==
    InFlight = {} =>
        \A d \in KindDirs : \A e1, e2 \in fs :
            (/\ Front(e1.path) = d /\ Front(e2.path) = d
             /\ e1.path # e2.path
             /\ ServedName(Last(e1.path)) = ServedName(Last(e2.path)))
            => ~(Live(Last(e1.path)) /\ Live(Last(e2.path)))

\* Request u stored a file under a name with an expiry, request g is a later
\* GET of that name, and no other request deleted the name or stored it again.
ServesExpiring(u, g) ==
    /\ u < g
    /\ req[u].op = "upload" /\ req[u].pc = "done" /\ req[u].status = 200
    /\ req[u].kind = "File" /\ req[u].expiry # 0
    /\ req[g].op = "get" /\ req[g].pc = "done"
    /\ req[g].file = P(FALSE, <<req[u].served>>)
    /\ \A o \in DOMAIN req \ {u, g} :
          /\ req[o].op # "delete"
          /\ req[o].op = "upload" => req[o].served # req[u].served

\* C5: for a file uploaded under served name X with expiry timestamp ts,
\* serve(X) returns the file's bytes at every time now < ts and 404 at every
\* time now >= ts, whether or not the reaper has removed the file and whatever
\* other files exist in the directory.
C5_ServedIffUnexpired ==
    \A u, g \in DOMAIN req :
        ServesExpiring(u, g) =>
            IF req[g].t < req[u].expiry
            THEN req[g].status = 200 /\ req[g].body = [data |-> req[u].data, by |-> u]
            ELSE req[g].status = 404

\* C6: a stored file whose on-disk name has no timestamp suffix (it does not
\* end in '.' and 10 or more digits) is eternal: no reaper cycle ever unlinks it.
C6_ReaperSparesUnsuffixed ==
    \A e \in reaped : HasTimestampSuffix(Last(e.path))

\* C7: every file written by store_file or store_url, for any requested file
\* name, any filename-header override and any expiry, lies under upload_path,
\* and an upload whose filename header would place the file outside
\* upload_path fails and writes nothing.
C7_WritesStayInUploadPath ==
    /\ \A e \in fs : IsPrefix(upload_path.comps, e.path) /\ e.path # upload_path.comps
    /\ \A p \in DOMAIN req :
          (req[p].op = "upload" /\ req[p].pc = "done" /\ req[p].header = EscapingHeader)
             => req[p].status # 200 /\ req[p].wrote = <<>>

\* The live files of the upload root that are served under a name.
LiveInRoot(fsys, name) ==
    {e \in fsys : /\ Front(e.path) = upload_path.comps
                  /\ ServedName(Last(e.path)) = name
                  /\ Live(Last(e.path))}

\* Request d is a DELETE that was answered 200 and no upload of the name was
\* accepted after it.
DeletedFor(rq, d, name) ==
    /\ rq[d].op = "delete" /\ rq[d].pc = "done" /\ rq[d].status = 200
    /\ rq[d].file = P(FALSE, <<name>>)
    /\ \A u \in DOMAIN rq : (u > d /\ rq[u].op = "upload") => rq[u].file # rq[d].file

\* serve(name) would answer 404: the path serve resolves is no file.
ServeNotFound(fsys, time, file) ==
    \E r \in {ServeResolve(fsys, time, file)} : r.status = 0 /\ ~is_file(fsys, r.path)

\* C16: a granted DELETE of a name with a live file in the upload root goes on
\* to unlink that file and nothing else and answers 200 "file deleted\n"; of
\* an absent or expired name it answers 404 and changes nothing; after a
\* DELETE answered 200, serve of the name finds nothing until the name is
\* uploaded again.
C16_DeleteUnlinksTheLiveFile ==
    [][/\ \A p \in DOMAIN req :
            (req[p].pc = "idle" /\ req'[p].op = "delete" /\ req'[p].status \notin {401, 500}) =>
                IF LiveInRoot(fs, Last(req'[p].file.comps)) = {}
                THEN req'[p].pc = "done" /\ req'[p].status = 404
                     /\ fs' = fs /\ content' = content
                ELSE req'[p].pc = "remove"
                     /\ Loc(req'[p].path) \in
                           {e.path : e \in LiveInRoot(fs, Last(req'[p].file.comps))}
       /\ \A p \in DOMAIN req :
            (req[p].op = "delete" /\ req[p].pc = "remove" /\ req'[p].pc = "done") =>
                /\ req'[p].status = 200 /\ req'[p].body = Text("file deleted\n")
                /\ fs' = {e \in fs : e.path # Loc(req[p].path)}
                /\ fs' # fs
                /\ content' = content
       /\ \A d \in DOMAIN req :
            DeletedFor(req', d, AName) => ServeNotFound(fs', now', AFile)]_vars

\* C17: whatever live artifact serve(name) would return, in the upload root or
\* in the Url, Oneshot or OneshotUrl directory, a granted DELETE of the name
\* goes on to unlink.
C17_DeleteResolvesAsServe ==
    [][\A p \in DOMAIN req :
          (req[p].pc = "idle" /\ req'[p].op = "delete" /\ req'[p].status # 401) =>
              \A r \in {ServeResolve(fs, now, req'[p].file)} :
                 (r.status = 0 /\ is_file(fs, r.path)) =>
                     req'[p].pc = "remove" /\ req'[p].path = r.path]_vars

\* The live files of a directory that are served under a name.
LiveNamed(fsys, dir, name) ==
    {e \in fsys : /\ Front(e.path) = dir
                  /\ ServedName(Last(e.path)) = name
                  /\ Live(Last(e.path))}

\* C24: store_file answers 409 exactly when the directory of the kind holds a
\* live file of the upload's final name, with or without a timestamp suffix,
\* whether or not the upload has an expiry; expired files and tombstones do
\* not block; on 409 nothing is created or modified.  (Stated for the uploads
\* that name the file themselves, without a filename header.)
C24_ConflictIffLiveSameName ==
    [][\A p \in DOMAIN req :
          (/\ req[p].pc = "idle" /\ req'[p].op = "upload"
           /\ req'[p].kind \in {"File", "Oneshot"}
           /\ req'[p].header = NoHeader) =>
              \A prep \in {StoreFilePrep(config, {}, now, req'[p].kind, req'[p].file,
                                         req'[p].data, None, req'[p].expiry,
                                         req'[p].header)} :
                 prep.status = 0 =>
                    /\ req'[p].status = 409
                         <=> LiveNamed(fs, upload_path.comps \o get_dir(req'[p].kind),
                                       prep.name) # {}
                    /\ req'[p].status = 409
                         => fs' = fs /\ content' = content /\ req'[p].wrote = <<>>]_vars

-----------------------------------------------------------------------------
(* Claims on SpecUrl *)

\* C9: the remote-mirror operation rejects, before any GET is issued, every URL
\* whose scheme is not http or https, whose host is localhost, or that resolves
\* to a disallowed address; for such a URL nothing is fetched or stored.
C9_RemoteUrlValidated ==
    /\ \A u \in fetched : validate_remote_url(UrlInfo(u))
    /\ \A p \in DOMAIN req :
          (req[p].kind = "RemoteFile" /\ ~validate_remote_url(UrlInfo(req[p].url)))
             => req[p].wrote = <<>>

\* C10: store_url rejects every input that is not UTF-8 text parsing as an
\* absolute URL with scheme http or https, writing nothing; every file under
\* url/ and oneshot_url/ contains an absolute http or https URL.
C10_OnlyHttpUrlsStored ==
    /\ \A p \in DOMAIN req :
          (/\ req[p].op = "upload" /\ req[p].kind \in {"Url", "OneshotUrl"}
           /\ ~(/\ from_utf8_ok(req[p].data)
                /\ UrlInfo(req[p].data).parses
                /\ UrlInfo(req[p].data).scheme \in {"http", "https"}))
          => req[p].wrote = <<>>
    /\ \A e \in fs :
          (Front(e.path) \in {upload_path.comps \o get_dir(t) : t \in {"Url", "OneshotUrl"}}
           /\ content[e.ino].data # "")
          => \E s \in UrlBodies :
                /\ UrlInfo(s).str = content[e.ino].data
                /\ UrlInfo(s).scheme \in {"http", "https"}

-----------------------------------------------------------------------------
(* Claims on SpecDedup *)

\* The regular files below upload_path whose bytes are the given bytes.
FilesWith(bytes) ==
    {e \in fs : IsPrefix(upload_path.comps, e.path) /\ content[e.ino].data = bytes}

\* Requests 1 and 2 are the only requests so far: two answered uploads of the
\* same bytes under kind File, neither with an expiry.
SameBytesTwice ==
    /\ started = 2
    /\ \A p \in {1, 2} : /\ EternalUpload(p)
                          /\ req[p].kind = "File"
    /\ req[1].data = req[2].data

\* C11: with duplicate_files = false and no expiry, uploading the same bytes
\* twice under kind File, the second upload after the first has completed,
\* yields the same served name both times, and exactly one file with those
\* bytes exists on disk afterwards.
C11_SameBytesSameName ==
    (DuplicatesRefused(config) /\ SameBytesTwice) =>
        /\ req[1].status = 200 /\ req[2].status = 200
        /\ req[1].served = req[2].served
        /\ Cardinality(FilesWith(req[1].data)) = 1

\* C12: the duplicate short-circuit is applied only to uploads of kind File
\* (and to the fetched bytes of a mirror): an accepted upload of kind Url,
\* Oneshot or OneshotUrl always stores a new artifact in its own
\* kind-directory and never returns the name of an already stored file, even
\* when duplicate_files = false, no expiry is set and a file has the same bytes.
C12_DedupOnlyForFiles ==
    \A p \in DOMAIN req :
        (/\ req[p].op = "upload" /\ req[p].pc = "done" /\ req[p].status = 200
         /\ req[p].kind \in {"Url", "Oneshot", "OneshotUrl"})
        => /\ ~req[p].dedup
           /\ req[p].wrote # <<>>
           /\ Front(req[p].wrote) = upload_path.comps \o get_dir(req[p].kind)

\* C13: on a duplicate hit the upload writes no new file and returns the
\* served name of an existing stored file with the same SHA-256 whose on-disk
\* name carries no timestamp suffix; a consumed (tombstoned) one-shot or an
\* expired file is never returned as the duplicate.
C13_DedupReturnsStoredName ==
    [][\A p \in DOMAIN req :
          (req'[p].dedup /\ ~req[p].dedup) =>
              /\ fs' = fs /\ content' = content
              /\ req'[p].wrote = <<>>
              /\ \E e \in fs :
                    /\ IsPrefix(upload_path.comps, e.path)
                    /\ Last(e.path) = req'[p].served
                    /\ ~HasTimestampSuffix(Last(e.path))
                    /\ sha256_digest(content[e.ino].data) = sha256_digest(req'[p].data)]_vars

-----------------------------------------------------------------------------
(* Claims on SpecAuth *)

\* The effective token sets: what is configured in the file or in the
\* environment, without the blank tokens.
EffectiveAuthTokens ==
    {v \in (UNION config.auth_tokens) \cup config.auth_token \cup config.env_auth_token :
        v \notin {"", " "}}
EffectiveDeleteTokens ==
    {v \in (UNION config.delete_tokens) \cup config.env_delete_token : v \notin {"", " "}}

Deletes == {p \in DOMAIN req : req[p].op = "delete"}
HoldsDeleteToken(p) == HeaderToken(req[p].authorization) \in EffectiveDeleteTokens

\* C14: a DELETE is answered 404 when no delete token is in effect and 401
\* when its token is not one of the delete tokens, also when it is one of the
\* auth tokens; it gets to remove_file only with a delete token, and while no
\* DELETE carried a delete token the file is on disk.
C14_DeleteNeedsDeleteToken ==
    /\ \A p \in Deletes :
          /\ EffectiveDeleteTokens = {} =>
                req[p].pc = "done" /\ req[p].status = 404
          /\ (EffectiveDeleteTokens # {} /\ ~HoldsDeleteToken(p)) =>
                req[p].pc = "done" /\ req[p].status = 401
          /\ (req[p].pc = "remove" \/ req[p].status = 200) => HoldsDeleteToken(p)
    /\ (\A p \in Deletes : ~HoldsDeleteToken(p)) => is_file(fs, Join(upload_path, AFile))

\* A DELETE with an auth token that is no delete token was answered 401, and
\* a later DELETE with a delete token removed the file.
C14_Witness ==
    \E p, q \in Deletes :
       /\ HeaderToken(req[p].authorization) \in EffectiveAuthTokens
       /\ ~HoldsDeleteToken(p)
       /\ req[p].status = 401
       /\ req[q].status = 200
       /\ ~is_file(fs, Join(upload_path, AFile))

AuthProtected == {p \in DOMAIN req : req[p].op \in {"upload", "version", "list"} /\ p # 0}
HoldsAuthToken(p) == HeaderToken(req[p].authorization) \in EffectiveAuthTokens

\* C15: with auth tokens in effect, a POST /, GET /version or GET /list whose
\* token is none of them is answered 401 "unauthorized\n" and writes nothing:
\* while no other request was made, the disk is as it was.  With no auth token
\* in effect no such request is answered 401.
C15_AuthTokenRequired ==
    /\ \A p \in AuthProtected :
          /\ (EffectiveAuthTokens # {} /\ ~HoldsAuthToken(p)) =>
                /\ req[p].pc = "done" /\ req[p].status = 401
                /\ req[p].body = Text("unauthorized\n")
                /\ req[p].wrote = <<>>
          /\ EffectiveAuthTokens = {} => req[p].status # 401
    /\ (/\ EffectiveAuthTokens # {}
        /\ Deletes = {}
        /\ \A p \in AuthProtected : ~HoldsAuthToken(p)) =>
          /\ fs = {[path |-> req[0].wrote, ino |-> 0]}
          /\ content[0] = [data |-> "b", by |-> 0]

\* An upload and a GET /list were refused with 401
\* under the deprecated auth_token.
C15_Witness ==
    \E p, q \in AuthProtected :
       /\ config.auth_token = Some("old")
       /\ req[p].op = "upload" /\ req[p].status = 401
       /\ req[q].op = "list" /\ req[q].status = 401
       /\ HeaderToken(req[q].authorization) = "a"

-----------------------------------------------------------------------------
(* Claims on SpecNames *)

\* Request u is an accepted upload of a file, request g a later GET of the
\* name u was answered with, made before the expiry if there is one, and no
\* other upload was answered with that name.
GetsUploaded(u, g) ==
    /\ u < g
    /\ req[u].op = "upload" /\ req[u].pc = "done" /\ req[u].status = 200
    /\ req[u].kind = "File"
    /\ req[g].op = "get" /\ req[g].pc = "done"
    /\ req[g].file = RequestPath(req[u].served)
    /\ req[u].expiry = 0 \/ req[g].t < req[u].expiry
    /\ \A o \in DOMAIN req \ {u, g} :
          req[o].op = "upload" => req[o].served # req[u].served

\* C18: a GET of the name an accepted file upload was answered with returns
\* 200 and the uploaded bytes, for every file name, filename header and
\* handle_spaces policy, while the upload has not expired.
C18_UploadedNameIsServed ==
    \A u, g \in DOMAIN req :
        GetsUploaded(u, g) =>
            req[g].status = 200 /\ req[g].body = [data |-> req[u].data, by |-> u]

\* C19: the name an accepted upload is answered with never ends in '.' and
\* ten or more digits.
C19_ServedNameHasNoTimestamp ==
    \A p \in DOMAIN req :
        (req[p].op = "upload" /\ req[p].pc = "done" /\ req[p].status = 200)
            => ~HasTimestampSuffix(req[p].served)

-----------------------------------------------------------------------------
(* Claims on SpecReaper *)

\* The paths with a timestamp suffix that a file of SpecReaper can have.
StampedPaths ==
    {d \o <<name \o <<N(t)>>>> :
        d \in KindDirs,
        name \in {AName, <<W("")>>, get_dir("Url")[1], get_dir("OneshotUrl")[1]},
        t \in {MinTimestamp} \cup (Epoch..(Epoch + MaxTick + 1))}
    \cup {d \o <<<<W(""), N(MinTimestamp), N(t)>>>> :
            d \in KindDirs, t \in Epoch..(Epoch + MaxTick + 1)}

OnDisk(path) == \E e \in fs : e.path = path

\* C20: a file of the upload root or of a kind-directory whose timestamp
\* suffix lies in the past, a tombstone included, is eventually unlinked; and
\* what the cleanup thread has selected for removal has its suffix in the past.
C20_ExpiredEventuallyReaped ==
    /\ \A path \in StampedPaths :
          (OnDisk(path) /\ Last(Last(path)).n < now) ~> ~OnDisk(path)
    /\ [](\A e \in fs : HasTimestampSuffix(Last(e.path)) => e.path \in StampedPaths)
    /\ [](\A path \in reaper.todo :
             HasTimestampSuffix(Last(path)) /\ Last(Last(path)).n < now)

-----------------------------------------------------------------------------
(* Claims on SpecReload *)

\* paste.delete_expired_files.enabled of a [paste] table or a configuration
CleanupEnabled(cfg) ==
    \E cleanup_config \in cfg.delete_expired_files : cleanup_config.enabled

\* C21: after a reload of paste.delete_expired_files.enabled the cleanup thread
\* acts on the new value within one interval, however many reloads arrive in
\* that interval: when the thread ends an iteration (its sleep is over) and
\* begins the next one cleaning up or blocked, the value it holds is the one of
\* the configuration in force.
C21_ReaperFollowsReload ==
    [][(/\ CleanupEnabled(paste_config)
        /\ Len(config_receiver') < Len(config_receiver)
        /\ (CleanupEnabled(paste_config') \/ config_receiver' = <<>>))
          => (CleanupEnabled(paste_config') <=> CleanupEnabled(config))]_vars

\* What an upload of the request's file is stored as and answered with when
\* every read of the handler sees the configuration c.
OneSnapshot(c, r, wrote, served) ==
    \E prep \in {StoreFilePrep(c, {}, r.t, r.kind, r.file, r.data, None, r.expiry,
                               r.header)} :
       /\ wrote = Loc(prep.path)
       /\ served = HandleSpaces(c, prep.name)

\* C22: an upload handled while the configuration is reloaded takes every
\* decision under one configuration, the old one or the new one: the name it
\* stores the file under and the name it answers with are those of one
\* configuration.
C22_UploadSeesOneSnapshot ==
    [][\A p \in DOMAIN req :
          (req[p].op = "upload" /\ req[p].pc = "write" /\ req'[p].pc = "done") =>
              \E c \in ReloadConfigs :
                 OneSnapshot(c, req[p], req[p].wrote, req'[p].served)]_vars

-----------------------------------------------------------------------------
(* Claims on SpecServe *)

\* The directories serve looks into, in the order of the claim, with the kind
\* an artifact found there is served as.
ServeDirs ==
    <<[dir |-> upload_path.comps, ptype |-> "File"],
      [dir |-> upload_path.comps \o get_dir("Url"), ptype |-> "Url"],
      [dir |-> upload_path.comps \o get_dir("Oneshot"), ptype |-> "Oneshot"],
      [dir |-> upload_path.comps \o get_dir("OneshotUrl"), ptype |-> "OneshotUrl"]>>

\* The places of ServeDirs that hold a live file served under the name.
HoldingLive(fsys, name) ==
    {i \in DOMAIN ServeDirs : LiveNamed(fsys, ServeDirs[i].dir, name) # {}}

\* C26: serve(name) resolves to the live file of the upload root if there is
\* one, otherwise to the first live artifact of the directories Url, Oneshot,
\* OneshotUrl, served as that kind (so a one-shot shadowed by a root file is
\* not consumed); it answers 404 only if none of them holds a live artifact
\* of the name.
C26_ServeResolutionOrder ==
    [][\A p \in DOMAIN req :
          (req[p].pc = "idle" /\ req'[p].op = "get") =>
              \A holding \in {HoldingLive(fs, Last(req'[p].file.comps))} :
                 IF holding = {}
                 THEN req'[p].pc = "done" \/ ~is_file(fs, req'[p].path)
                 ELSE \E i \in holding :
                        /\ \A j \in holding : i <= j
                        /\ req'[p].pc = "check"
                        /\ req'[p].ptype = ServeDirs[i].ptype
                        /\ Loc(req'[p].path) \in
                              {e.path : e \in LiveNamed(fs, ServeDirs[i].dir,
                                                        Last(req'[p].file.comps))}]_vars

\* The artifacts a GET consumes: the files of oneshot/ and oneshot_url/.
InOneshotDir(loc) ==
    Front(loc) \in {upload_path.comps \o get_dir("Oneshot"),
                    upload_path.comps \o get_dir("OneshotUrl")}

\* Request g is a GET answered with an artifact that is not a one-shot.
ServedKept(rq, g) ==
    /\ rq[g].op = "get" /\ rq[g].pc = "done"
    /\ rq[g].ptype \in {"File", "Url"}
    /\ rq[g].status = (IF rq[g].ptype = "Url" THEN 302 ELSE 200)

-----------------------------------------------------------------------------
(* Claims on SpecLimit *)

\* Request p comes to store bytes of the type application/pdf in this step,
\* as a file or one-shot part or as the body of a remote file, while
\* paste.mime_blacklist names the type.
StoresBlacklisted(p) ==
    /\ "application/pdf" \in config.mime_blacklist
    /\ req'[p].data = "%PDF"
    /\ \/ req[p].op = "post" /\ req'[p].op = "upload" /\ req[p].form_field \in {"file", "oneshot"}
       \/ req[p].pc = "fetch" /\ req'[p].pc # "fetch"

\* C27: an upload whose sniffed MIME type is in paste.mime_blacklist is
\* answered 415 and writes nothing, for every kind stored through store_file,
\* also when duplicate_files = false and the same bytes are already stored.
C27_BlacklistPrecedesDedup ==
    [][\A p \in DOMAIN req :
          StoresBlacklisted(p) =>
              /\ req'[p].pc = "done" /\ req'[p].status = 415
              /\ fs' = fs /\ content' = content]_vars

\* C28: a remote fetch whose body is longer than server.max_content_length is
\* answered 413 and stores nothing; a body of at most the cap goes on to be
\* stored in full (or is answered by the blacklist, the duplicate or the
\* collision check).
C28_RemoteBodyCap ==
    [][\A p \in DOMAIN req : \A body \in {"%PDF", "12345"} :
          RemoteFetch(p, body) =>
              IF Len(body) > config.max_content_length
              THEN /\ req'[p].pc = "done" /\ req'[p].status = 413
                   /\ fs' = fs /\ content' = content
              ELSE /\ req'[p].data = body
                   /\ req'[p].pc = "create" \/ req'[p].status \in {200, 409, 415}]_vars

\* The Content-Length of the request is above the maximum the server was
\* started with.
OverLimit(r) == \E bytes \in r.content_length : bytes > BaseConfig.max_content_length

\* C29: a request whose Content-Length is greater than the configured maximum
\* is answered 413 "upload limit exceeded" without the handler being called,
\* so nothing is stored; a request whose Content-Length is at most the
\* maximum (or absent) is passed to the handler as it is.
C29_ContentLengthLimit ==
    [][\A p \in DOMAIN req :
          /\ (req[p].op = "none" /\ req'[p].op # "none") =>
                IF OverLimit(req'[p])
                THEN /\ req'[p].pc = "done" /\ req'[p].status = 413
                     /\ req'[p].body = Text("upload limit exceeded")
                     /\ fs' = fs /\ content' = content
                ELSE /\ req'[p].op = "post" /\ req'[p].pc = "idle"
                     /\ req'[p] = [req[p] EXCEPT !.op = "post",
                                                 !.content_length = req'[p].content_length,
                                                 !.form_field = req'[p].form_field]
                     /\ fs' = fs /\ content' = content
          /\ OverLimit(req'[p]) =>
                /\ req'[p].status = 413
                /\ req'[p].kind = "" /\ req'[p].wrote = <<>> /\ req'[p].ino = -1]_vars

\* A request of Content-Length max + 1 was answered 413, and one of
\* Content-Length max was handled and its file stored.
C29_Witness ==
    \E p, q \in DOMAIN req :
       /\ req[p].content_length = Some(BaseConfig.max_content_length + 1)
       /\ req[p].pc = "done" /\ req[p].status = 413
       /\ req[q].content_length = Some(BaseConfig.max_content_length)
       /\ req[q].pc = "done" /\ req[q].status = 200
       /\ \E e \in fs : e.path = req[q].wrote

\* The kind each field name stands for, and the directory files of the kind
\* are stored in.
FieldKinds ==
    {[field |-> "file", kind |-> "File", dir |-> <<>>],
     [field |-> "remote", kind |-> "RemoteFile", dir |-> <<>>],
     [field |-> "oneshot", kind |-> "Oneshot", dir |-> <<Nm("oneshot")>>],
     [field |-> "url", kind |-> "Url", dir |-> <<Nm("url")>>],
     [field |-> "oneshot_url", kind |-> "OneshotUrl", dir |-> <<Nm("oneshot_url")>>]}

\* C30: the field name of the part selects the kind (file, remote, oneshot,
\* url, oneshot_url); a part of any other field name, or of zero bytes, is
\* answered 400 and nothing is stored for it.
C30_FieldSelectsKind ==
    [][\A p \in DOMAIN req :
          /\ (req[p].op = "post" /\ req'[p].op = "upload") =>
                IF req'[p].data = "" \/ ~\E k \in FieldKinds : k.field = req[p].form_field
                THEN /\ req'[p].pc = "done" /\ req'[p].status = 400
                     /\ req'[p].wrote = <<>>
                     /\ fs' = fs /\ content' = content
                ELSE \E k \in FieldKinds :
                        k.field = req[p].form_field /\ req'[p].kind = k.kind
          /\ (req'[p].op = "upload" /\ req'[p].wrote # <<>>) =>
                \E k \in FieldKinds :
                   /\ k.field = req'[p].form_field
                   /\ Front(req'[p].wrote) = upload_path.comps \o k.dir]_vars

\* A part sent as oneshot_url was stored in oneshot_url/, and a part under
\* the field name "text" was answered 400.
C30_Witness ==
    \E p, q \in DOMAIN req :
       /\ req[p].form_field = "oneshot_url" /\ req[p].pc = "done" /\ req[p].status = 200
       /\ \E e \in fs : e.path = req[p].wrote
                        /\ Front(e.path) = upload_path.comps \o <<Nm("oneshot_url")>>
       /\ req[q].form_field = "text" /\ req[q].pc = "done" /\ req[q].status = 400

\* C32: without random_url, at any time at most one stored URL file of each
\* kind exists (Url under url/, OneshotUrl under oneshot_url/), whatever
\* sequence of store_url calls, with or without an expiry, was made.  Files
\* whose expiry has passed are not counted.
C32_OneUrlPerKind ==
    \A type_ \in {"Url", "OneshotUrl"} :
       Cardinality({e \in fs : /\ Front(e.path) = upload_path.comps \o get_dir(type_)
                               /\ Live(Last(e.path))}) <= 1

-----------------------------------------------------------------------------
(* Claims on SpecList *)

\* The names list is to report: the served names of the files of the upload
\* root that are live, when a timestamp suffix equal to now counts as
\* AtNow says.
RootNames(AtNow) ==
    {ServedName(Last(e.path)) :
        e \in {f \in fs : /\ Front(f.path) = Loc(upload_path)
                          /\ \/ Live(Last(f.path))
                             \/ AtNow /\ Last(Last(f.path)).n = now}}

\* C31: GET /list, when expose_list is true, answers with one entry for every
\* live regular file of the upload root and with none for a file whose
\* timestamp suffix is in the past, each under its name without the timestamp
\* suffix; when expose_list is unset or false it answers 404.  (A suffix equal
\* to now may be listed or not.)
C31_ListShowsLiveFiles ==
    [][\A p \in 1..MaxListReqs :
          ListReq(p, None) =>
             IF \E expose \in config.expose_list : expose
             THEN /\ req'[p].status = 200
                  /\ RootNames(FALSE) \subseteq {item.file_name : item \in req'[p].items}
                  /\ {item.file_name : item \in req'[p].items} \subseteq RootNames(TRUE)
             ELSE req'[p].status = 404]_vars

-----------------------------------------------------------------------------
(* Claims on SpecExt *)

\* The requested name normalized: "-" is "stdin"; ".", "" and a name without
\* base name are "file".
Normalized(file) ==
    IF file.comps = <<>> \/ Last(file.comps) \in {Dot, DotDot, Nm("")} THEN Nm("file")
    ELSE IF Last(file.comps) = Nm("-") THEN Nm("stdin")
    ELSE Last(file.comps)

\* The segments of a normalized name that make its stem: one, or for a
\* dotfile the empty one before the leading dot and the second.
StemLen(name) == IF name[1] = W("") THEN 2 ELSE 1

\* The name the claims give a file: the stem, then what random is to put
\* between, then the extension of the name or, when it has none, the one the
\* bytes have (only "%PDF" has one) or the default extension.
ExpectedName(name, data, between) ==
    SubSeq(name, 1, StemLen(name)) \o between \o
      (IF Len(name) > StemLen(name) THEN SubSeq(name, StemLen(name) + 1, Len(name))
       ELSE IF data = "%PDF" THEN Nm("pdf") ELSE default_extension)

\* C34: store_file normalizes the requested name, takes the stem up to the
\* first dot (for a dotfile the leading dot and the second segment) and the
\* rest as extension, and appends the extension sniffed from the bytes or,
\* if unknown, paste.default_extension when there is none: without random
\* names an accepted upload is stored in the upload directory under that name,
\* which is the name it is answered with.
C34_NameAndExtension ==
    \A p \in 1..MaxExtReqs :
       (/\ req[p].op = "upload" /\ req[p].pc = "done" /\ req[p].status = 200
        /\ generate(config) = {None}) =>
          \A expected \in {ExpectedName(Normalized(req[p].file), req[p].data, <<>>)} :
             /\ req[p].served = expected
             /\ req[p].wrote = upload_path.comps \o <<expected>>

\* C33: with a random-name generator configured, an accepted store_file
\* returns '<stem>.<random>.<extension>' when suffix_mode is true, with the
\* stem of the name (a leading-dot stem included) and its full extension, and
\* '<random>.<extension>' when suffix_mode is false or unset; the stored file
\* holds exactly the uploaded bytes.
C33_RandomNames ==
    \A p \in 1..MaxExtReqs :
       (/\ req[p].op = "upload" /\ req[p].pc = "done" /\ req[p].status = 200
        /\ generate(config) # {None}) =>
          \E random \in {Nm("r1"), Nm("r2")} :
             \E expected \in {ExpectedName(Normalized(req[p].file), req[p].data, random)} :
                /\ req[p].served =
                      IF \E r \in config.random_url : r.suffix_mode = Some(TRUE)
                      THEN expected
                      ELSE SubSeq(expected, StemLen(Normalized(req[p].file)) + 1,
                                  Len(expected))
                /\ req[p].wrote = upload_path.comps \o <<req[p].served>>
                /\ \E e \in fs : e.path = req[p].wrote /\ content[e.ino].data = req[p].data

-----------------------------------------------------------------------------
(* Claims on SpecGlob *)

\* C35: for a name without digits suffix and any directory contents,
\* glob_match_file returns a sibling 'name.<ts>' whenever one with now < ts
\* exists and the stripped 'name' otherwise, whatever else the glob matches;
\* a path passed with a timestamp suffix resolves like its stripped form.
C35_GlobFindsLiveSibling ==
    pj.pc = "ret" =>
       \A live \in {{e.path : e \in {f \in fs :
                        /\ Front(f.path) = upload_path.comps
                        /\ Front(Last(f.path)) = AName
                        /\ HasTimestampSuffix(Last(f.path))
                        /\ now < Last(Last(f.path)).n}}} :
          IF live # {} THEN Loc(pj.res.path) \in live
          ELSE pj.res.path = Join(upload_path, AFile)

-----------------------------------------------------------------------------
(* Claims on SpecIp *)

\* C36: is_disallowed_ipv6 returns true for every loopback (::1), unspecified,
\* multicast, unique-local (fc00::/7), link-local (fe80::/10) and
\* documentation (2001:db8::/32) address, and for an IPv4-mapped address
\* ::ffff:a.b.c.d exactly what is_disallowed_ipv4 returns for a.b.c.d.
C36_Ipv6Disallowed ==
    pj.pc = "ret" =>
       \A seg \in {pj.v6} :
          /\ (\/ seg = <<0, 0, 0, 0, 0, 0, 0, 1>>
              \/ seg = <<0, 0, 0, 0, 0, 0, 0, 0>>
              \/ seg[1] >= 65280
              \/ (seg[1] >= 64512 /\ seg[1] <= 65023)
              \/ (seg[1] >= 65152 /\ seg[1] <= 65215)
              \/ (seg[1] = 8193 /\ seg[2] = 3512)) => pj.res
          /\ SubSeq(seg, 1, 6) = <<0, 0, 0, 0, 0, 65535>> =>
                (pj.res <=> is_disallowed_ipv4(<<seg[7] \div 256, seg[7] % 256,
                                                 seg[8] \div 256, seg[8] % 256>>))

-----------------------------------------------------------------------------
(* Claims on SpecExpiry *)

\* C37: the expiry of an upload is the request time plus the duration of the
\* 'expire' header when there is one, else the request time plus
\* paste.default_expiry when that is configured, else none; when an expiry
\* applies the file is stored under a name with the suffix '.<expiry>' and
\* the duplicate check is skipped, and without one the name has no suffix.
C37_ExpiryOfUpload ==
    [][/\ \A p \in 1..MaxExpiryReqs, u \in ExpiryUploads :
             UploadStart(p, None, u.type_, u.file, u.data, u.dur, NoHeader) =>
                req'[p].expiry =
                   IF u.dur # 0 THEN now + u.dur
                   ELSE IF config.default_expiry # None
                        THEN now + (CHOOSE v \in config.default_expiry : TRUE)
                   ELSE 0
       /\ \A p \in 1..MaxExpiryReqs :
             /\ req'[p].dedup => req'[p].expiry = 0
             /\ req'[p].wrote # <<>> =>
                   IF req'[p].expiry # 0
                   THEN /\ Len(Last(req'[p].wrote)) >= 2
                        /\ Last(Last(req'[p].wrote)) = N(req'[p].expiry)
                   ELSE ~HasTimestampSuffix(Last(req'[p].wrote))]_vars

\* With duplicate_files = false and a default expiry of 2 ms, "a.txt" sent at
\* the first instant was stored with the default expiry, and the same bytes
\* sent then as "x.txt" with 'expire: 1ms' were stored again, under a name
\* with that expiry.
C37_Witness ==
    \E p, q \in 1..MaxExpiryReqs :
       /\ p < q /\ DuplicatesRefused(config)
       /\ req[p].pc = "done" /\ req[p].status = 200 /\ req[p].kind = "File"
       /\ req[p].wrote = upload_path.comps \o <<AName \o <<N(Epoch + 2)>>>>
       /\ req[q].pc = "done" /\ req[q].status = 200 /\ req[q].kind = "File"
       /\ req[q].data = req[p].data /\ ~req[q].dedup
       /\ req[q].wrote = upload_path.comps \o <<<<W("x"), W("txt"), N(Epoch + 1)>>>>

-----------------------------------------------------------------------------
(* Claims on SpecWatch *)

\* C39: a modification of the configuration file that fails to parse leaves
\* the shared configuration and the cleanup thread's configuration unchanged;
\* one that parses replaces the shared configuration and is then delivered to
\* the cleanup thread, and the cleanup thread applies the delivered
\* configurations in the order of the modifications: it takes them from the
\* head of the channel, while deliveries are added at its end.
C39_ReloadsInOrder ==
    [][/\ \A file \in WatchFiles :
             ConfigWatcher(file) =>
                IF file.valid
                THEN /\ config' = file.config
                     /\ config_receiver' = Append(config_receiver, file.config)
                     /\ paste_config' = paste_config
                ELSE /\ config' = config
                     /\ config_receiver' = config_receiver
                     /\ paste_config' = paste_config
       /\ config' # config => config_receiver' = Append(config_receiver, config')
       /\ paste_config' # paste_config =>
             /\ config_receiver # <<>>
             /\ paste_config' =
                   [delete_expired_files |-> Head(config_receiver).delete_expired_files]
             /\ config_receiver' = Tail(config_receiver)
       /\ config_receiver' # config_receiver =>
             \/ config_receiver # <<>> /\ config_receiver' = Tail(config_receiver)
             \/ config_receiver' = Append(config_receiver, config')]_vars

\* The file holds a text that does not parse, the shared configuration is
\* that of an earlier modification that disabled the cleanup, and the cleanup
\* thread has applied it.
C39_Witness ==
    /\ ~config_file.valid
    /\ config_file.config # config
    /\ config # BaseConfig
    /\ ~CleanupEnabled(config) /\ ~CleanupEnabled(paste_config)
    /\ config_receiver = <<>>

-----------------------------------------------------------------------------
(* Claims on SpecMulti *)

\* The name a part of SpecMulti is answered with.
PartName(part) ==
    IF part.type_ = "Url" THEN get_dir("Url")[1] ELSE Last(part.file.comps)

\* C38: when a part of a multi-part upload fails, nothing is rolled back: the
\* files stored for the parts before it remain on disk, with their bytes,
\* though the error response lists none of their URLs; when all parts are
\* accepted, the 200 body is one line per part, in the order of the parts.
C38_NoRollbackAndAllUrls ==
    [][\A p \in 1..MaxMultiReqs :
          /\ (/\ req[p].op = "upload" /\ req[p].pc \notin {"idle", "done"}
              /\ req'[p].pc = "done" /\ req'[p].status # 200) =>
                /\ fs' = fs /\ content' = content
                /\ req'[p].urls = <<>>
                /\ \A i \in 1..Len(req[p].urls) :
                      \E e \in fs' :
                         /\ e.path = req[p].urls[i].wrote
                         /\ content'[e.ino].data = Written([kind |-> req[p].parts[i].type_,
                                                            data |-> req[p].parts[i].data])
          /\ (req'[p].op = "upload" /\ req'[p].pc = "done" /\ req'[p].status = 200) =>
                /\ Len(req'[p].urls) = Len(req'[p].parts)
                /\ \A i \in 1..Len(req'[p].parts) :
                      req'[p].urls[i].name = PartName(req'[p].parts[i])]_vars

\* An upload of "a.txt" and "a.txt" again was answered 409 and a later GET
\* was answered with the first part's file; an upload of "x.txt" and a URL
\* was answered 200 with the two names.
C38_Witness ==
    \E p, g, q \in 1..MaxMultiReqs :
       /\ p < g
       /\ req[p].op = "upload" /\ req[p].pc = "done" /\ req[p].status = 409
       /\ Len(req[p].parts) = 2 /\ req[p].urls = <<>>
       /\ req[g].op = "get" /\ req[g].pc = "done" /\ req[g].status = 200
       /\ req[g].body = [data |-> "b", by |-> p]
       /\ req[q].op = "upload" /\ req[q].pc = "done" /\ req[q].status = 200
       /\ Len(req[q].urls) = 2
       /\ req[q].urls[1].name = <<W("x"), W("txt")>> /\ req[q].urls[2].name = Nm("url")

-----------------------------------------------------------------------------
(* Claims on SpecJoin *)

\* The directory a path names when the working directory lies depth levels
\* below the root.
ResolveIn(depth, p) ==
    IF p.abs THEN Loc(p) ELSE Loc(P(TRUE, [i \in 1..depth |-> Nm("cwd")] \o p.comps))

\* The join of base and part names a place that is not base or below it.
ClimbsOut(base, part) ==
    LET depth == Len(base.comps) + Len(part.comps) + 1
    IN ~IsPrefix(ResolveIn(depth, base), ResolveIn(depth, Join(base, part)))

\* C8: for every trusted base and arbitrary part, safe_path_join either fails
\* or returns the lexically normalized join, whose components have the
\* normalized base as a prefix; a part that climbs out with '..' is rejected
\* and '.' segments are removed.
C8_SafeJoinStaysInBase ==
    (pj.pc = "ret" /\ pj.res.ok) =>
        /\ pj.res.path = Clean(Join(pj.base, pj.part))
        /\ StartsWith(pj.res.path, Clean(pj.base))
        /\ \A i \in 1..Len(pj.res.path.comps) :
              pj.res.path.comps[i] = Dot => pj.res.path.comps = <<Dot>>
        /\ ~ClimbsOut(pj.base, pj.part)

====
